---- MODULE Spec2Model ----
(***************************************************************************)
(* A model of the background-remover backend: the image classifier         *)
(* (image_classifier.py), the high-resolution processor                    *)
(* (image_processor.py), the format optimizer (format_optimizer.py), the   *)
(* catalog (image_storage.py) and the two /remove-background handlers      *)
(* (main.py, main_simple.py).                                              *)
(*                                                                         *)
(* Conventions.                                                            *)
(*  - A Python str that the code converts or inspects (upper, lower,       *)
(*    startswith) is a tuple of one-character strings, so that the         *)
(*    conversion is computed and not assumed.  None is the empty tuple:    *)
(*    every optional string of the source is only ever tested for          *)
(*    truthiness, where None and "" agree.  A str that is only compared    *)
(*    whole (a model id, a quality tier, an image mode) is a TLA+ string.  *)
(*  - Fractions in [0, 1] and the entropy are held in hundredths.          *)
(*  - A PIL image is a record of its mode, its size <<width, height>>,     *)
(*    whether info carries a 'transparency' key, a summary of the alpha    *)
(*    values, and the filters applied to its alpha and colour planes.      *)
(***************************************************************************)
EXTENDS Integers, Sequences, FiniteSets, TLC

VARIABLES
    features,         \* classifier: the feature vector of the image being classified
    category,         \* classifier: the category _determine_image_type returned
    format_configs,   \* optimizer: ImageFormatOptimizer.format_configs (process-wide)
    opt_call,         \* optimizer: the last get_optimal_format / optimize_image call
    proc_call,        \* processor: the last HighResImageProcessor call
    request,          \* full service: the /remove-background request in hand
    response,         \* full service: its response, once the handler has run
    metadata,         \* simple service: the catalog (metadata.json), id -> entry
    files,            \* simple service: the image files on disk, id -> bytes
    next_id,          \* simple service: how many ids uuid4 has handed out
    simple_request,   \* simple service: the /remove-background request in hand
    simple_response,  \* simple service: its response, once the handler has run
    rec_call,         \* classifier: the last get_model_recommendation call
    handlers,         \* either service: the handlers in flight, their place and request
    session_inits,    \* full service: rembg sessions created so far, per strategy id
    pure_call,        \* the last call of a function of its arguments alone
    storage_log       \* catalog: the bytes stored per id, the ids deleted, the last call

vars == <<features, category, format_configs, opt_call, proc_call,
          request, response, metadata, files, next_id,
          simple_request, simple_response, rec_call, handlers, session_inits,
                   pure_call, storage_log>>

-----------------------------------------------------------------------------
(* Python strings *)

Lowers == <<"a","b","c","d","e","f","g","h","i","j","k","l","m",
            "n","o","p","q","r","s","t","u","v","w","x","y","z">>
Uppers == <<"A","B","C","D","E","F","G","H","I","J","K","L","M",
            "N","O","P","Q","R","S","T","U","V","W","X","Y","Z">>

UpperChar(c) ==
    IF \E i \in 1..Len(Lowers) : Lowers[i] = c
    THEN Uppers[CHOOSE i \in 1..Len(Lowers) : Lowers[i] = c]
    ELSE c

LowerChar(c) ==
    IF \E i \in 1..Len(Uppers) : Uppers[i] = c
    THEN Lowers[CHOOSE i \in 1..Len(Uppers) : Uppers[i] = c]
    ELSE c

upper(s) == [i \in 1..Len(s) |-> UpperChar(s[i])]
lower(s) == [i \in 1..Len(s) |-> LowerChar(s[i])]

startswith(s, prefix) ==
    /\ Len(s) >= Len(prefix)
    /\ SubSeq(s, 1, Len(prefix)) = prefix

None == << >>

S_PNG   == <<"P","N","G">>
S_JPEG  == <<"J","P","E","G">>
S_JPG   == <<"J","P","G">>
S_WEBP  == <<"W","E","B","P">>
S_auto  == <<"a","u","t","o">>
S_image_slash == <<"i","m","a","g","e","/">>

-----------------------------------------------------------------------------
(* image_classifier.py *)

\* A fraction n/d, d > 0.
Rat(n, d) == [n |-> n, d |-> d]
\* r > p/q for a fraction r and integers p, q > 0.
RatGt(r, p, q) == r.n * q > p * r.d

Min(a, b) == IF a <= b THEN a ELSE b
Max(a, b) == IF a >= b THEN a ELSE b

\* _detect_faces_simple: face_probability = min(upper_skin_percentage * 2, 1.0),
\* likely_portrait = face_probability > 0.3 (hundredths).
_detect_faces_simple(upper_skin_percentage) ==
    LET face_probability == Min(upper_skin_percentage * 2, 100)
    IN [face_probability |-> face_probability,
        upper_skin_percentage |-> upper_skin_percentage,
        likely_portrait |-> face_probability > 30]

\* _analyze_objects: object_likelihood = min(geometric / max(large, 1), 1.0).
_analyze_objects(large_contour_count, geometric_shapes) ==
    LET d == Max(large_contour_count, 1)
    IN [large_contour_count |-> large_contour_count,
        geometric_shapes |-> geometric_shapes,
        object_likelihood |-> IF geometric_shapes > d THEN Rat(1, 1)
                              ELSE Rat(geometric_shapes, d)]

\* log2 of a power of two.
RECURSIVE Log2(_)
Log2(n) == IF n <= 1 THEN 0 ELSE 1 + Log2(n \div 2)

RECURSIVE SumSeq(_)
SumSeq(s) == IF s = << >> THEN 0 ELSE Head(s) + SumSeq(Tail(s))

\* -np.sum(hist * np.log2(hist / np.sum(hist))) on the non-zero bins of a
\* histogram whose counts and total are powers of two, where log2 is exact:
\* every bin weighs its log by its count.
hist_sum_count_log(hist) ==
    LET total == SumSeq(hist)
    IN SumSeq([i \in DOMAIN hist |->
                  IF hist[i] > 0 THEN hist[i] * (Log2(total) - Log2(hist[i])) ELSE 0])

\* The entropy of _analyze_complexity, in hundredths.
hist_entropy(hist) == 100 * hist_sum_count_log(hist)

\* _analyze_complexity, the level derived from the entropy (hundredths).
_analyze_complexity(entropy) ==
    [entropy |-> entropy,
     complexity_level |-> IF entropy > 600 THEN "high"
                          ELSE IF entropy > 400 THEN "medium" ELSE "low"]

\* _analyze_image_characteristics: the feature vector of an image whose pixel
\* statistics are s.
_analyze_image_characteristics(s) ==
    [face_stats   |-> _detect_faces_simple(s.upper_skin_percentage),
     object_stats |-> _analyze_objects(s.large_contour_count, s.geometric_shapes),
     complexity   |-> _analyze_complexity(s.entropy),
     color_stats  |-> [skin_percentage |-> s.skin_percentage],
     confidence   |-> 80]

\* The same cascade with the product rule tried before the portrait rule.
_determine_image_type_product_first(characteristics) ==
    LET face_stats   == characteristics.face_stats
        object_stats == characteristics.object_stats
        complexity   == characteristics.complexity
        color_stats  == characteristics.color_stats
    IN IF /\ RatGt(object_stats.object_likelihood, 6, 10)
          /\ object_stats.geometric_shapes > 0
          /\ complexity.complexity_level \in {"low", "medium"}
       THEN "product"
       ELSE IF /\ face_stats.likely_portrait
               /\ face_stats.face_probability > 40
               /\ color_stats.skin_percentage > 15
       THEN "portrait"
       ELSE IF /\ complexity.complexity_level = "high"
               /\ complexity.entropy > 650
       THEN "artistic"
       ELSE "general"

_determine_image_type(characteristics) ==
    LET face_stats   == characteristics.face_stats
        object_stats == characteristics.object_stats
        complexity   == characteristics.complexity
        color_stats  == characteristics.color_stats
    IN IF /\ face_stats.likely_portrait
          /\ face_stats.face_probability > 40
          /\ color_stats.skin_percentage > 15
       THEN "portrait"
       ELSE IF /\ RatGt(object_stats.object_likelihood, 6, 10)
               /\ object_stats.geometric_shapes > 0
               /\ complexity.complexity_level \in {"low", "medium"}
       THEN "product"
       ELSE IF /\ complexity.complexity_level = "high"
               /\ complexity.entropy > 650
       THEN "artistic"
       ELSE "general"

\* image_types with a portrait primary that main.py's registry does not know.
image_types_unknown_primary ==
    [portrait |-> <<"u2net_human", "u2net">>,
     product  |-> <<"silueta", "u2net">>,
     artistic |-> <<"isnet-general-use", "u2net">>,
     general  |-> <<"u2net">>]

\* ImageClassifier.image_types: the candidate strategies of each category.
image_types ==
    [portrait |-> <<"u2net_human_seg", "u2net">>,
     product  |-> <<"silueta", "u2net">>,
     artistic |-> <<"isnet-general-use", "u2net">>,
     general  |-> <<"u2net">>]

\* classify_image, from the pixel statistics of the image.
classify_image(s) ==
    LET characteristics == _analyze_image_characteristics(s)
        type == _determine_image_type(characteristics)
    IN [type |-> type,
        recommended_model |-> image_types[type][1],
        alternative_models |-> Tail(image_types[type]),
        confidence |-> characteristics.confidence,
        characteristics |-> characteristics]

-----------------------------------------------------------------------------
(* PIL images *)

\* An image: alpha summarises the alpha plane ("none" when the mode has none,
\* "opaque" when every value is 255, "partial" otherwise); transparency is
\* whether image.info carries a 'transparency' key; filters lists the filters
\* applied to it, in order.
Img(mode, size, transparency, alpha) ==
    [mode |-> mode, size |-> size, transparency |-> transparency,
     alpha |-> alpha, filters |-> << >>]

\* Image.convert(mode) for the target modes the code uses.
convert(image, mode) ==
    IF mode = "RGBA"
    THEN [image EXCEPT !.mode = "RGBA",
                       !.transparency = FALSE,
                       !.alpha = IF image.mode \in {"RGBA", "LA"} THEN image.alpha
                                 ELSE IF image.mode = "P" /\ image.transparency
                                      THEN "partial" ELSE "opaque"]
    ELSE [image EXCEPT !.mode = mode, !.transparency = FALSE, !.alpha = "none"]

\* Image.resize(size, LANCZOS).
resize(image, size) == [image EXCEPT !.size = size]

\* np.array(image).shape: rows first, then columns, then the channels.
np_shape(image) ==
    LET w == image.size[1]
        h == image.size[2]
    IN CASE image.mode = "RGBA" -> <<h, w, 4>>
         [] image.mode = "RGB"  -> <<h, w, 3>>
         [] image.mode = "LA"   -> <<h, w, 2>>
         [] OTHER               -> <<h, w>>

\* Image.fromarray(array) for a uint8 array of the shape given, carrying the
\* planes of image.
fromarray(shape, image) ==
    LET mode == IF Len(shape) = 2 THEN "L"
                ELSE CASE shape[3] = 4 -> "RGBA"
                       [] shape[3] = 3 -> "RGB"
                       [] OTHER        -> "LA"
    IN [mode |-> mode,
        size |-> <<shape[2], shape[1]>>,
        transparency |-> FALSE,
        alpha |-> IF mode \in {"RGBA", "LA"} THEN image.alpha ELSE "none",
        filters |-> image.filters]

-----------------------------------------------------------------------------
(* image_processor.py *)

\* HighResImageProcessor.max_dimension
max_dimension == 4096

\* int(x * (max_dim / long)) in IEEE doubles, for 1 <= x <= long and
\* max_dim < long.  When x * max_dim / long is not an integer the double lies
\* strictly between two integers and int() floors it.  When it is an integer
\* k, the rounded quotient times x is either k or the double just below k
\* (1122 * (1024 / 1122) is 1023.9999999999999), and int() gives k or k - 1:
\* below says which.
scaled(x, max_dim, long, below) ==
    LET exact == (x * max_dim) \div long
    IN IF (x * max_dim) % long = 0 /\ below THEN exact - 1 ELSE exact

\* _enhance_quality: bilateral filter, contrast 1.1, unsharp mask.
_enhance_quality(image) ==
    [image EXCEPT !.filters = @ \o <<"bilateralFilter", "Contrast", "UnsharpMask">>]

\* preprocess_image; bw, bh are the roundings of the two products.
preprocess_image(image, bw, bh) ==
    LET rgb == IF image.mode \notin {"RGB", "RGBA"} THEN convert(image, "RGB") ELSE image
        original_size == rgb.size
        long == Max(original_size[1], original_size[2])
        sized == IF long > max_dimension
                 THEN resize(rgb, <<scaled(original_size[1], max_dimension, long, bw),
                                    scaled(original_size[2], max_dimension, long, bh)>>)
                 ELSE rgb
    IN _enhance_quality(sized)

\* _smooth_alpha_channel: Gaussian blur, then close, then open.
_smooth_alpha_channel(image) ==
    [image EXCEPT !.filters = @ \o <<"alpha.GaussianBlur", "alpha.MORPH_CLOSE",
                                     "alpha.MORPH_OPEN">>]

\* _refine_edges: blur the colour planes on the dilated edges of the alpha plane.
_refine_edges(image) ==
    [image EXCEPT !.filters = @ \o <<"refine_edges">>]

\* postprocess_result resizing to the transposed size.
postprocess_result_transposed(result, original) ==
    LET sized == IF result.size # original.size
                 THEN resize(result, <<original.size[2], original.size[1]>>)
                 ELSE result
        shape == np_shape(sized)
    IN fromarray(shape, sized)

postprocess_result(result, original) ==
    LET sized == IF result.size # original.size
                 THEN resize(result, original.size)
                 ELSE result
        shape == np_shape(sized)
        result_array == IF Len(shape) = 4
                        THEN _refine_edges(_smooth_alpha_channel(sized))
                        ELSE sized
    IN fromarray(shape, result_array)

\* get_optimal_dimensions with every tier's ceiling one tier too low.
tier_max_dim_shifted(target_quality) ==
    CASE target_quality = "ultra"  -> 4096
      [] target_quality = "high"   -> 2048
      [] target_quality = "medium" -> 1024
      [] OTHER                     -> 512

\* get_optimal_dimensions, the tier's ceiling: every tier other than ultra,
\* high and medium is low.
tier_max_dim(target_quality) ==
    CASE target_quality = "ultra"  -> 8192
      [] target_quality = "high"   -> 4096
      [] target_quality = "medium" -> 2048
      [] OTHER                     -> 1024

\* get_optimal_dimensions scaling every size to the ceiling, small ones too.
get_optimal_dimensions_always_scale(original_size, target_quality, bw, bh) ==
    LET width == original_size[1]
        height == original_size[2]
        max_dim == tier_max_dim(target_quality)
        long == Max(width, height)
    IN <<scaled(width, max_dim, long, bw), scaled(height, max_dim, long, bh)>>

\* get_optimal_dimensions clamping each axis to the ceiling on its own.
get_optimal_dimensions_clamp_each(original_size, target_quality, bw, bh) ==
    LET width == original_size[1]
        height == original_size[2]
        max_dim == tier_max_dim(target_quality)
        long == Max(width, height)
    IN IF long <= max_dim
       THEN original_size
       ELSE <<Min(width, max_dim), Min(height, max_dim)>>

\* get_optimal_dimensions; bw, bh are the roundings of the two products.
get_optimal_dimensions(original_size, target_quality, bw, bh) ==
    LET width == original_size[1]
        height == original_size[2]
        max_dim == tier_max_dim(target_quality)
        long == Max(width, height)
    IN IF long <= max_dim
       THEN original_size
       ELSE <<scaled(width, max_dim, long, bw), scaled(height, max_dim, long, bh)>>

-----------------------------------------------------------------------------
(* format_optimizer.py *)

\* ImageFormatOptimizer.__init__: the baseline table.
initial_format_configs ==
    (S_PNG  :> [optimize |-> TRUE, compress_level |-> 6,
                supports_transparency |-> TRUE])
 @@ (S_JPEG :> [optimize |-> TRUE, quality |-> 95,
                supports_transparency |-> FALSE, progressive |-> TRUE])
 @@ (S_WEBP :> [optimize |-> TRUE, quality |-> 95, method |-> 6,
                supports_transparency |-> TRUE, lossless |-> FALSE])

\* _has_transparency
_has_transparency(image) ==
    \/ image.mode \in {"RGBA", "LA"}
    \/ image.mode = "P" /\ image.transparency

\* get_optimal_format comparing the hint as given, without upper().
get_optimal_format_case_sensitive(image, original_format) ==
    IF _has_transparency(image) THEN S_PNG
    ELSE IF original_format # None /\ original_format \in {S_JPEG, S_JPG} THEN S_JPEG
    ELSE S_PNG

\* get_optimal_format
get_optimal_format(image, original_format) ==
    IF _has_transparency(image) THEN S_PNG
    ELSE IF original_format # None /\ upper(original_format) \in {S_JPEG, S_JPG} THEN S_JPEG
    ELSE S_PNG

\* Flattening onto a white RGB background (Image.new + paste).
flatten_on_white(image) ==
    [image EXCEPT !.mode = "RGB", !.transparency = FALSE, !.alpha = "none",
                  !.filters = @ \o <<"paste_on_white">>]

\* _prepare_image_for_format whose JPEG branch flattens RGBA and LA and leaves
\* every other mode as it is.
_prepare_image_for_format_no_rgb_convert(image, format) ==
    LET fmt == upper(format)
    IN CASE fmt = S_JPEG ->
              IF image.mode \in {"RGBA", "LA"} THEN flatten_on_white(image)
              ELSE image
         [] fmt = S_PNG ->
              IF _has_transparency(image) /\ image.mode # "RGBA"
              THEN convert(image, "RGBA")
              ELSE IF ~_has_transparency(image) /\ image.mode \notin {"RGB", "L"}
              THEN convert(image, "RGB")
              ELSE image
         [] fmt = S_WEBP ->
              IF _has_transparency(image) /\ image.mode # "RGBA"
              THEN convert(image, "RGBA")
              ELSE IF ~_has_transparency(image) /\ image.mode # "RGB"
              THEN convert(image, "RGB")
              ELSE image
         [] OTHER -> image

\* _prepare_image_for_format
_prepare_image_for_format(image, format) ==
    LET fmt == upper(format)
    IN CASE fmt = S_JPEG ->
              IF image.mode \in {"RGBA", "LA"} THEN flatten_on_white(image)
              ELSE IF image.mode # "RGB" THEN convert(image, "RGB")
              ELSE image
         [] fmt = S_PNG ->
              IF _has_transparency(image) /\ image.mode # "RGBA"
              THEN convert(image, "RGBA")
              ELSE IF ~_has_transparency(image) /\ image.mode \notin {"RGB", "L"}
              THEN convert(image, "RGB")
              ELSE image
         [] fmt = S_WEBP ->
              IF _has_transparency(image) /\ image.mode # "RGBA"
              THEN convert(image, "RGBA")
              ELSE IF ~_has_transparency(image) /\ image.mode # "RGB"
              THEN convert(image, "RGB")
              ELSE image
         [] OTHER -> image

\* optimize_image leaving the low tier at the baseline entry.
tier_config_low_at_baseline(configs, format, quality_level) ==
    LET config == configs[format]
    IN CASE quality_level = "ultra" ->
              IF format = S_JPEG THEN [config EXCEPT !.quality = 98]
              ELSE IF format = S_WEBP THEN [config EXCEPT !.quality = 98, !.method = 6]
              ELSE config
         [] quality_level = "medium" ->
              IF format = S_JPEG THEN [config EXCEPT !.quality = 85]
              ELSE IF format = S_WEBP THEN [config EXCEPT !.quality = 85]
              ELSE IF format = S_PNG THEN [config EXCEPT !.compress_level = 9]
              ELSE config
         [] OTHER -> config

\* optimize_image, the per-tier overrides of a copy of the baseline entry.
tier_config(configs, format, quality_level) ==
    LET config == configs[format]
    IN CASE quality_level = "ultra" ->
              IF format = S_JPEG THEN [config EXCEPT !.quality = 98]
              ELSE IF format = S_WEBP THEN [config EXCEPT !.quality = 98, !.method = 6]
              ELSE config
         [] quality_level = "high" -> config
         [] quality_level = "medium" ->
              IF format = S_JPEG THEN [config EXCEPT !.quality = 85]
              ELSE IF format = S_WEBP THEN [config EXCEPT !.quality = 85]
              ELSE IF format = S_PNG THEN [config EXCEPT !.compress_level = 9]
              ELSE config
         [] quality_level = "low" ->
              IF format = S_JPEG THEN [config EXCEPT !.quality = 75]
              ELSE IF format = S_WEBP THEN [config EXCEPT !.quality = 75]
              ELSE IF format = S_PNG THEN [config EXCEPT !.compress_level = 9]
              ELSE config
         [] OTHER -> config

\* optimize_image, the keyword arguments of the save of each format.
save_params(format, config) ==
    CASE format = S_PNG  -> [optimize |-> config.optimize,
                             compress_level |-> config.compress_level]
      [] format = S_JPEG -> [optimize |-> config.optimize, quality |-> config.quality,
                             progressive |-> config.progressive]
      [] format = S_WEBP -> [optimize |-> config.optimize, quality |-> config.quality,
                             method |-> config.method, lossless |-> config.lossless]

\* One Image.save into a buffer: what was encoded, how.
Encoded(image, format, params) ==
    [format |-> format, mode |-> image.mode, size |-> image.size,
     alpha |-> image.alpha, params |-> params]

NoBytes == [format |-> None]

\* optimize_image whose fallback reports the requested format as the one used.
optimize_image_reports_requested(configs, image, format0, quality_level, ok1, ok2) ==
    LET format == upper(format0)
    IN IF format \notin DOMAIN configs
       THEN [outcome |-> "ValueError", bytes |-> NoBytes, format |-> None,
             attempts |-> << >>]
       ELSE LET config == tier_config(configs, format, quality_level)
                optimized_image == _prepare_image_for_format(image, format)
                first == Encoded(optimized_image, format, save_params(format, config))
                png_image == _prepare_image_for_format(image, S_PNG)
                second == Encoded(png_image, S_PNG, [optimize |-> TRUE])
            IN IF ok1
               THEN [outcome |-> "return", bytes |-> first, format |-> format,
                     attempts |-> <<first>>]
               ELSE IF ok2
               THEN [outcome |-> "return", bytes |-> second, format |-> format,
                     attempts |-> <<first, second>>]
               ELSE [outcome |-> "EncodeError", bytes |-> NoBytes, format |-> None,
                     attempts |-> <<first, second>>]

\* optimize_image retrying the fallback once more when it fails.
optimize_image_retries_twice(configs, image, format0, quality_level, ok1, ok2) ==
    LET format == upper(format0)
    IN IF format \notin DOMAIN configs
       THEN [outcome |-> "ValueError", bytes |-> NoBytes, format |-> None,
             attempts |-> << >>]
       ELSE LET config == tier_config(configs, format, quality_level)
                optimized_image == _prepare_image_for_format(image, format)
                first == Encoded(optimized_image, format, save_params(format, config))
                png_image == _prepare_image_for_format(image, S_PNG)
                second == Encoded(png_image, S_PNG, [optimize |-> TRUE])
            IN IF ok1
               THEN [outcome |-> "return", bytes |-> first, format |-> format,
                     attempts |-> <<first>>]
               ELSE IF ok2
               THEN [outcome |-> "return", bytes |-> second, format |-> S_PNG,
                     attempts |-> <<first, second>>]
               ELSE [outcome |-> "return", bytes |-> second, format |-> S_PNG,
                     attempts |-> <<first, second, second>>]

\* optimize_image adjusting the table's entry itself, without the copy.
optimize_image_format_configs_aliased(configs, format0, quality_level) ==
    LET format == upper(format0)
    IN IF format \notin DOMAIN configs THEN configs
       ELSE [configs EXCEPT ![format] = tier_config(configs, format, quality_level)]

\* self.format_configs after optimize_image: config is
\* self.format_configs[format].copy(), a dict of its own, and the overrides
\* are assigned to it; no statement assigns to the table or to its entries.
optimize_image_format_configs(configs, format0, quality_level) ==
    LET format == upper(format0)
    IN IF format \notin DOMAIN configs THEN configs
       ELSE LET config == tier_config(configs, format, quality_level)
            IN configs

\* optimize_image on the table configs; ok1 and ok2 say whether the save of
\* the requested format and the save of the PNG fallback succeed.  attempts
\* lists the saves made, in order.
optimize_image(configs, image, format0, quality_level, ok1, ok2) ==
    LET format == upper(format0)
    IN IF format \notin DOMAIN configs
       THEN [outcome |-> "ValueError", bytes |-> NoBytes, format |-> None,
             attempts |-> << >>]
       ELSE LET config == tier_config(configs, format, quality_level)
                optimized_image == _prepare_image_for_format(image, format)
                first == Encoded(optimized_image, format, save_params(format, config))
                png_image == _prepare_image_for_format(image, S_PNG)
                second == Encoded(png_image, S_PNG, [optimize |-> TRUE])
            IN IF ok1
               THEN [outcome |-> "return", bytes |-> first, format |-> format,
                     attempts |-> <<first>>]
               ELSE IF ok2
               THEN [outcome |-> "return", bytes |-> second, format |-> S_PNG,
                     attempts |-> <<first, second>>]
               ELSE [outcome |-> "EncodeError", bytes |-> NoBytes, format |-> None,
                     attempts |-> <<first, second>>]

-----------------------------------------------------------------------------
(* image_storage.py *)

\* Path(filename).suffix: from the last dot of the name, unless the name
\* starts or ends with it.
suffix(filename) ==
    LET dots == {i \in 2..Len(filename) : filename[i] = "."}
    IN IF dots = {} THEN << >>
       ELSE LET i == CHOOSE i \in dots : \A j \in dots : j <= i
            IN IF i = Len(filename) THEN << >> ELSE SubSeq(filename, i, Len(filename))

\* _load_metadata taking its except branch: metadata.json is not readable as
\* JSON, as when another writer is half way through it.
_load_metadata_unreadable(metadata_file) == << >>

\* _load_metadata: what metadata.json holds.
_load_metadata(metadata_file) == metadata_file

\* store_image writing the bytes to images_dir / filename, without the id.
store_image_by_filename(md, fs, image_id, image_data, filename, image_type, parent_id, meta) ==
    LET image_path == <<0, filename>>
        image_metadata == [id |-> image_id,
                           filename |-> filename,
                           original_filename |-> filename,
                           type |-> image_type,
                           parent_id |-> parent_id,
                           file_path |-> image_path,
                           metadata |-> meta]
    IN [metadata |-> (image_id :> image_metadata) @@ md,
        files |-> (image_path :> image_data) @@ fs,
        id |-> image_id]

\* store_image on the catalog md and the files fs, with the id uuid4 hands
\* out (ids are 1, 2, ...; a parent_id of None is 0): the new catalog, the
\* new files and the id.
store_image(md, fs, image_id, image_data, filename, image_type, parent_id, meta) ==
    LET ext0 == lower(suffix(filename))
        ext == IF ext0 = << >> THEN <<".","p","n","g">> ELSE ext0
        image_path == <<image_id, ext>>
        image_metadata == [id |-> image_id,
                           filename |-> filename,
                           original_filename |-> filename,
                           type |-> image_type,
                           parent_id |-> parent_id,
                           file_path |-> image_path,
                           metadata |-> meta]
    IN [metadata |-> (image_id :> image_metadata) @@ md,
        files |-> (image_path :> image_data) @@ fs,
        id |-> image_id]

\* get_image
get_image(md, image_id) ==
    IF image_id \in DOMAIN md THEN md[image_id] ELSE None

\* get_image_data: the bytes of the file the entry points to.
get_image_data(md, fs, image_id) ==
    LET image_info == get_image(md, image_id)
    IN IF image_info = None THEN None
       ELSE IF image_info.file_path \in DOMAIN fs THEN fs[image_info.file_path]
       ELSE None

\* update_image_metadata: dict.update on the entry, then save.
update_image_metadata(md, image_id, updates) ==
    IF image_id \notin DOMAIN md
    THEN [returned |-> FALSE, metadata |-> md]
    ELSE [returned |-> TRUE,
          metadata |-> [md EXCEPT ![image_id] = updates @@ md[image_id]]]

\* The catalog md without the key image_id; the files fs without the path.
Without(md, image_id) == [k \in DOMAIN md \ {image_id} |-> md[k]]

\* delete_image(image_id, delete_children=False) on the catalog and files on
\* disk: load, remove the file, del, save.
delete_one(md, fs, image_id) ==
    IF image_id \notin DOMAIN md
    THEN [returned |-> FALSE, metadata |-> md, files |-> fs]
    ELSE [returned |-> TRUE,
          metadata |-> Without(md, image_id),
          files |-> Without(fs, md[image_id].file_path)]

\* The loop over children: delete_image(child['id'], delete_children=False)
\* for each, every call loading and saving metadata.json itself.
RECURSIVE delete_each(_, _, _)
delete_each(md, fs, children) ==
    IF children = {} THEN [metadata |-> md, files |-> fs]
    ELSE LET child == CHOOSE c \in children : TRUE
             d == delete_one(md, fs, child)
         IN delete_each(d.metadata, d.files, children \ {child})

\* delete_image: metadata is loaded once, before the children are deleted;
\* the entry is deleted from that copy, and that copy is what is saved.
delete_image(md, fs, image_id, delete_children) ==
    LET metadata0 == md
    IN IF image_id \notin DOMAIN metadata0
       THEN [returned |-> FALSE, metadata |-> md, files |-> fs]
       ELSE LET image_info == metadata0[image_id]
                children == {metadata0[c].id : c \in {k \in DOMAIN metadata0 :
                                                 metadata0[k].parent_id = image_id}}
                after == IF delete_children THEN delete_each(md, fs, children)
                         ELSE [metadata |-> md, files |-> fs]
            IN [returned |-> TRUE,
                metadata |-> Without(metadata0, image_id),
                files |-> Without(after.files, image_info.file_path)]

-----------------------------------------------------------------------------
(* main.py *)

AVAILABLE_MODELS == {"u2net", "u2net_human_seg", "silueta", "isnet-general-use"}

\* get_model_recommendation returning whatever override it is given.
get_model_recommendation_any_override(stats, user_preference) ==
    LET classification == classify_image(stats)
    IN IF user_preference # ""
       THEN user_preference
       ELSE classification.recommended_model

\* get_model_recommendation
get_model_recommendation(stats, user_preference) ==
    LET classification == classify_image(stats)
    IN IF user_preference # "" /\ user_preference \in
             {"u2net", "u2net_human_seg", "silueta", "isnet-general-use"}
       THEN user_preference
       ELSE classification.recommended_model

\* content_type_map with image/jpg for JPEG.
content_type_of_jpg(final_format) ==
    CASE final_format = S_PNG  -> "image/png"
      [] final_format = S_JPEG -> "image/jpg"
      [] final_format = S_WEBP -> "image/webp"
      [] OTHER                 -> "image/png"

\* remove_background, content_type_map.get(final_format, 'image/png')
content_type_of(final_format) ==
    CASE final_format = S_PNG  -> "image/png"
      [] final_format = S_JPEG -> "image/jpeg"
      [] final_format = S_WEBP -> "image/webp"
      [] OTHER                 -> "image/png"

\* What an exchange that sent no bytes carries.
NoBody == [status |-> 0, detail |-> [msg |-> "", cause |-> "", valid |-> {}, env |-> << >>],
           media_type |-> "", filename |-> << >>, body |-> NoBytes,
           stages |-> << >>, attempts |-> << >>, selected_model |-> "",
           working_size |-> <<0, 0>>]

\* raise HTTPException(status_code, detail) after the stages run so far.
Raise(status_code, msg, cause, valid, stages) ==
    [NoBody EXCEPT !.status = status_code,
                   !.detail = [msg |-> msg, cause |-> cause, valid |-> valid,
                               env |-> << >>],
                   !.stages = stages]

\* The body of the try block of remove_background: the response it returns,
\* or the exception it raises (kind "raise"; an HTTPException carries its
\* status, any other exception has status 0).  env.fail_at names the stage of
\* the pipeline whose library call raises, if any; env.result is the image
\* rembg returns; env.ok1, env.ok2 are the two saves of optimize_image.
remove_background_try(req, env) ==
    IF req.content_type = None \/ ~startswith(req.content_type, S_image_slash)
    THEN [kind |-> "raise",
          r |-> Raise(400, "File must be an image", "HTTPException", {}, << >>)]
    ELSE IF env.fail_at = "decode"
    THEN [kind |-> "raise", r |-> Raise(0, "", "decode", {}, <<"decode">>)]
    ELSE IF req.model = "auto" /\ env.fail_at = "classify"
    THEN [kind |-> "raise", r |-> Raise(0, "", "classify", {}, <<"decode", "classify">>)]
    ELSE
    LET original_image == req.image
        selected_model == IF req.model = "auto"
                          THEN get_model_recommendation(req.stats, "")
                          ELSE req.model
        s1 == IF req.model = "auto" THEN <<"decode", "classify">> ELSE <<"decode">>
    IN IF selected_model \notin AVAILABLE_MODELS
       THEN [kind |-> "raise",
             r |-> Raise(400, "Invalid model. Available models", "HTTPException",
                         AVAILABLE_MODELS, s1)]
       ELSE IF env.fail_at = "preprocess"
       THEN [kind |-> "raise",
             r |-> [Raise(0, "", "preprocess", {}, s1 \o <<"preprocess">>)
                      EXCEPT !.selected_model = selected_model]]
       ELSE IF env.fail_at = "new_session"
       THEN [kind |-> "raise",
             r |-> [Raise(0, "", "new_session", {}, s1 \o <<"preprocess", "new_session">>)
                      EXCEPT !.selected_model = selected_model]]
       ELSE IF env.fail_at = "segment"
       THEN [kind |-> "raise",
             r |-> [Raise(0, "", "segment", {},
                          s1 \o <<"preprocess", "new_session", "segment">>)
                      EXCEPT !.selected_model = selected_model]]
       ELSE IF env.fail_at = "postprocess"
       THEN [kind |-> "raise",
             r |-> [Raise(0, "", "postprocess", {},
                          s1 \o <<"preprocess", "new_session", "segment", "postprocess">>)
                      EXCEPT !.selected_model = selected_model]]
       ELSE
       LET processed_image == preprocess_image(original_image, env.bw, env.bh)
           segmented == [env.result EXCEPT !.size = processed_image.size]
           result_image == postprocess_result(segmented, original_image)
           optimal_format == IF req.output_format = S_auto
                             THEN get_optimal_format(result_image, req.filename)
                             ELSE upper(req.output_format)
           opt == optimize_image(format_configs, result_image, optimal_format,
                                 req.quality, env.ok1, env.ok2)
           s2 == s1 \o <<"preprocess", "new_session", "segment", "postprocess", "encode">>
       IN IF opt.outcome # "return"
          THEN [kind |-> "raise",
                r |-> [Raise(0, "", opt.outcome, {}, s2)
                         EXCEPT !.attempts = opt.attempts,
                                !.selected_model = selected_model,
                                !.working_size = processed_image.size]]
          ELSE [kind |-> "return",
                r |-> [status |-> 200,
                       detail |-> [msg |-> "", cause |-> "", valid |-> {},
                                   env |-> << >>],
                       media_type |-> content_type_of(opt.format),
                       filename |-> <<"r","e","s","u","l","t",".">> \o lower(opt.format),
                       body |-> opt.bytes,
                       stages |-> s2,
                       attempts |-> opt.attempts,
                       selected_model |-> selected_model,
                       working_size |-> processed_image.size]]

\* remove_background answering a failed segmentation with a cutout made
\* without rembg.
remove_background_classical_fallback(req, env) ==
    LET t == remove_background_try(req, env)
    IN IF t.kind = "raise" /\ t.r.detail.cause \in {"new_session", "segment"}
       THEN [t.r EXCEPT !.status = 200,
                        !.media_type = "image/png",
                        !.body = Encoded(convert(req.image, "RGBA"), S_PNG,
                                         [optimize |-> TRUE]),
                        !.stages = @ \o <<"classical", "encode">>]
       ELSE IF t.kind = "raise"
       THEN [t.r EXCEPT !.status = 500,
                        !.detail = [msg |-> "Error processing image",
                                    cause |-> t.r.detail.cause,
                                    valid |-> t.r.detail.valid,
                                    env |-> << >>]]
       ELSE t.r

\* remove_background: `except Exception` catches whatever the try block
\* raises, HTTPException included (it derives from Exception), and raises
\* HTTPException(500) in its place, with str(e) in its detail.
remove_background(req, env) ==
    LET t == remove_background_try(req, env)
    IN IF t.kind = "raise"
       THEN [t.r EXCEPT !.status = 500,
                        !.detail = [msg |-> "Error processing image",
                                    cause |-> t.r.detail.cause,
                                    valid |-> t.r.detail.valid,
                                    env |-> << >>]]
       ELSE t.r

-----------------------------------------------------------------------------
(* main_simple.py *)

\* simple_background_removal: adaptive threshold, close, open, invert, blur.
simple_background_removal(image) ==
    [mode |-> "RGBA", size |-> image.size, transparency |-> FALSE,
     alpha |-> "partial",
     filters |-> <<"adaptiveThreshold", "MORPH_CLOSE", "MORPH_OPEN",
                   "bitwise_not", "GaussianBlur">>]

\* Masks of a one-row image: a tuple of one value per column.
SetMax(S) == CHOOSE x \in S : \A y \in S : y <= x
SetMin(S) == CHOOSE x \in S : \A y \in S : x <= y

\* The columns the middle row of the 5x5 elliptical kernel covers around i.
Near(i, n) == {j \in 1..n : j - i <= 2 /\ i - j <= 2}

\* cv2.morphologyEx(mask, MORPH_CLOSE, kernel): dilate, then erode.
MORPH_CLOSE(mask) ==
    LET n == Len(mask)
        dilated == [i \in 1..n |-> SetMax({mask[j] : j \in Near(i, n)})]
    IN [i \in 1..n |-> SetMin({dilated[j] : j \in Near(i, n)})]

\* cv2.morphologyEx(mask, MORPH_OPEN, kernel): erode, then dilate.
MORPH_OPEN(mask) ==
    LET n == Len(mask)
        eroded == [i \in 1..n |-> SetMin({mask[j] : j \in Near(i, n)})]
    IN [i \in 1..n |-> SetMax({eroded[j] : j \in Near(i, n)})]

\* cv2.GaussianBlur(mask, (3, 3), 0): weights 1, 2, 1 over 4, the border
\* reflected about the edge column, the result rounded to a whole value.
GaussianBlur(mask) ==
    LET n == Len(mask)
        at(j, i) == IF j < 1 \/ j > n THEN (IF n = 1 THEN mask[i] ELSE mask[2 * i - j])
                    ELSE mask[j]
    IN [i \in 1..n |-> (at(i - 1, i) + 2 * mask[i] + at(i + 1, i) + 2) \div 4]

\* enhanced_background_removal, the mask, with the grabCut labeling fused
\* with the colour cue: a column the colour cue calls background is cleared.
enhanced_mask_fused(white_mask, edges, grabcut_mask, otsu_mask, grabcut_ok) ==
    LET mask2 == IF grabcut_ok
                 THEN [i \in DOMAIN grabcut_mask |->
                          IF grabcut_mask[i] = 2 \/ grabcut_mask[i] = 0 THEN 0 ELSE 1]
                 ELSE otsu_mask
        final_mask == [i \in DOMAIN mask2 |->
                          IF white_mask[i] = 255 THEN 0 ELSE mask2[i] * 255]
    IN GaussianBlur(MORPH_OPEN(MORPH_CLOSE(final_mask)))

\* enhanced_background_removal, the alpha plane it emits: white_mask is the
\* colour-range cue, edges the dilated Canny edges, grabcut_mask the labeling
\* grabCut leaves (0 and 2 background, 1 and 3 foreground), otsu_mask the
\* threshold of the grey image, taken when grabCut raises.
enhanced_mask(white_mask, edges, grabcut_mask, otsu_mask, grabcut_ok) ==
    LET mask2 == IF grabcut_ok
                 THEN [i \in DOMAIN grabcut_mask |->
                          IF grabcut_mask[i] = 2 \/ grabcut_mask[i] = 0 THEN 0 ELSE 1]
                 ELSE otsu_mask
        final_mask == [i \in DOMAIN mask2 |-> mask2[i] * 255]
    IN GaussianBlur(MORPH_OPEN(MORPH_CLOSE(final_mask)))

\* enhanced_background_removal without the try around grabCut.
enhanced_background_removal_no_except(image, grabcut_ok) ==
    LET img_array == convert(image, "RGB")
        shape == np_shape(img_array)
        height == shape[1]
        width == shape[2]
    IN IF ~grabcut_ok
       THEN [outcome |-> "raise", image |-> << >>]
       ELSE [outcome |-> "return",
             image |-> [mode |-> "RGBA", size |-> <<width, height>>,
                        transparency |-> FALSE, alpha |-> "partial",
                        filters |-> <<"grabCut", "MORPH_CLOSE", "MORPH_OPEN",
                                      "GaussianBlur">>]]

\* enhanced_background_removal: the mask is grabCut's labeling, or the Otsu
\* threshold when grabCut raises (grabcut_ok is false); then close, open,
\* blur, and an RGBA array of the rows and columns of the input.
enhanced_background_removal(image, grabcut_ok) ==
    LET img_array == convert(image, "RGB")
        shape == np_shape(img_array)
        height == shape[1]
        width == shape[2]
    IN [outcome |-> "return",
        image |-> [mode |-> "RGBA", size |-> <<width, height>>,
                   transparency |-> FALSE, alpha |-> "partial",
                   filters |-> <<IF grabcut_ok THEN "grabCut" ELSE "THRESH_OTSU",
                                 "MORPH_CLOSE", "MORPH_OPEN", "GaussianBlur">>]]

NoSimpleBody == [status |-> 0, detail |-> [msg |-> "", cause |-> "", env |-> << >>],
                 media_type |-> "", file_ext |-> << >>, body |-> NoBytes,
                 stages |-> << >>, original_id |-> 0, processed_id |-> 0,
                 result_image |-> << >>]

\* The try block of main_simple.remove_background on the catalog md, the
\* files fs and the id count n: what it returns or raises, and the catalog,
\* files and id count it leaves.
simple_remove_background_try(req, env, md, fs, n) ==
    IF req.content_type = None \/ ~startswith(req.content_type, S_image_slash)
    THEN [kind |-> "raise", metadata |-> md, files |-> fs, next_id |-> n,
          r |-> [NoSimpleBody EXCEPT !.status = 400,
                                     !.detail = [msg |-> "File must be an image",
                                                 cause |-> "HTTPException",
                                                 env |-> << >>]]]
    ELSE
    LET model == IF req.model = "auto" THEN "enhanced" ELSE req.model
    IN IF env.fail_at = "decode"
       THEN [kind |-> "raise", metadata |-> md, files |-> fs, next_id |-> n,
             r |-> [NoSimpleBody EXCEPT !.detail.cause = "decode",
                                        !.stages = <<"decode">>]]
       ELSE
       LET image_data == Encoded(req.image, req.upload_format, [upload |-> TRUE])
           st1 == store_image(md, fs, n + 1, image_data,
                              IF req.filename # None THEN req.filename
                              ELSE <<"u","p","l","o","a","d","e","d","_","i","m","a","g","e",
                                     ".","p","n","g">>,
                              "original", 0,
                              [model_used |-> model, output_format |-> None,
                               quality |-> ""])
           original_image == IF req.image.mode # "RGB" THEN convert(req.image, "RGB")
                             ELSE req.image
           removal == IF model = "simple" THEN "simple" ELSE "enhanced"
           removed == IF model = "simple"
                      THEN [outcome |-> "return",
                            image |-> simple_background_removal(original_image)]
                      ELSE enhanced_background_removal(original_image, env.grabcut_ok)
       IN IF env.fail_at = "segment" \/ removed.outcome = "raise"
          THEN [kind |-> "raise", metadata |-> st1.metadata, files |-> st1.files,
                next_id |-> n + 1,
                r |-> [NoSimpleBody EXCEPT !.detail.cause = "segment",
                                           !.stages = <<"decode", "store", removal>>,
                                           !.original_id = st1.id]]
          ELSE
          LET result_image == removed.image
              fmt == upper(req.output_format)
              saved == IF fmt = S_PNG
                       THEN [bytes |-> Encoded(result_image, S_PNG, [optimize |-> TRUE]),
                             content_type |-> "image/png", file_ext |-> <<"p","n","g">>]
                       ELSE IF fmt \in {S_JPG, S_JPEG}
                       THEN [bytes |-> Encoded(IF result_image.mode = "RGBA"
                                               THEN flatten_on_white(result_image)
                                               ELSE result_image,
                                               S_JPEG,
                                               [optimize |-> TRUE, quality |-> 95]),
                             content_type |-> "image/jpeg", file_ext |-> <<"j","p","g">>]
                       ELSE [bytes |-> Encoded(result_image, S_PNG, [optimize |-> TRUE]),
                             content_type |-> "image/png", file_ext |-> <<"p","n","g">>]
              processed_filename ==
                  <<"p","r","o","c","e","s","s","e","d","_">>
                  \o (IF req.filename # None THEN req.filename
                      ELSE <<"i","m","a","g","e">>)
                  \o <<".">> \o saved.file_ext
              st2 == store_image(st1.metadata, st1.files, n + 2, saved.bytes,
                                 processed_filename, "processed", st1.id,
                                 [model_used |-> model,
                                  output_format |-> req.output_format,
                                  quality |-> req.quality])
          IN [kind |-> "return", metadata |-> st2.metadata, files |-> st2.files,
              next_id |-> n + 2,
              r |-> [status |-> 200,
                     detail |-> [msg |-> "", cause |-> "", env |-> << >>],
                     result_image |-> result_image,
                     media_type |-> saved.content_type,
                     file_ext |-> saved.file_ext,
                     body |-> saved.bytes,
                     stages |-> <<"decode", "store", removal, "encode", "store">>,
                     original_id |-> st1.id, processed_id |-> st2.id]]

\* main_simple.remove_background: `except Exception` turns whatever the try
\* block raises, HTTPException included, into HTTPException(500).
simple_remove_background(req, env, md, fs, n) ==
    LET t == simple_remove_background_try(req, env, md, fs, n)
    IN IF t.kind = "raise"
       THEN [t EXCEPT !.r.status = 500,
                      !.r.detail.msg = "Error processing image"]
       ELSE t

-----------------------------------------------------------------------------
(* The classifier: one image classified per behaviour *)

\* Feature vectors _determine_image_type is applied to: every combination of
\* values on both sides of every threshold of the cascade.
MaxContours == 3
FaceLevels == {0, 30, 31, 40, 41, 100}
SkinLevels == {0, 15, 16, 60}
EntropyLevels == {0, 400, 401, 600, 601, 650, 651, 900}
Likelihoods == {Rat(n, d) : n \in 0..MaxContours, d \in 1..MaxContours}
FeatureVectors ==
    { [face_stats   |-> [face_probability |-> v.face_probability,
                         likely_portrait |-> v.likely_portrait],
       object_stats |-> [geometric_shapes |-> v.geometric_shapes,
                         object_likelihood |-> v.object_likelihood],
       complexity   |-> [entropy |-> v.entropy,
                         complexity_level |-> v.complexity_level],
       color_stats  |-> [skin_percentage |-> v.skin_percentage],
       confidence   |-> 80] :
      v \in { u \in [face_probability  : FaceLevels,
                     likely_portrait   : BOOLEAN,
                     skin_percentage   : SkinLevels,
                     geometric_shapes  : 0..MaxContours,
                     object_likelihood : Likelihoods,
                     entropy           : EntropyLevels,
                     complexity_level  : {"low", "medium", "high"}] :
                \* min(geometric / max(large, 1), 1.0) is at most 1
                u.object_likelihood.n <= u.object_likelihood.d } }

NoStats == [upper_skin_percentage |-> 0, skin_percentage |-> 0,
            large_contour_count |-> 0, geometric_shapes |-> 0, entropy |-> 0]

Tiers == {"ultra", "high", "medium", "low"}

\* The optimizer, processor and services at rest.
idle == [op |-> "idle"]
NoRequest == [content_type |-> None]
\* Nothing stored, nothing deleted, no file_path overwritten, no call made on
\* the catalog yet.
NoLog == [stored |-> << >>, deleted |-> {}, overwritten |-> FALSE, call |-> idle]

OthersInit ==
    /\ format_configs = initial_format_configs
    /\ opt_call = idle
    /\ proc_call = idle
    /\ request = NoRequest
    /\ response = NoBody
    /\ metadata = << >>
    /\ files = << >>
    /\ next_id = 0
    /\ simple_request = NoRequest
    /\ simple_response = NoSimpleBody
    /\ rec_call = idle
    /\ handlers = << >>
    /\ session_inits = [id \in AVAILABLE_MODELS |-> 0]
    /\ pure_call = idle
    /\ storage_log = NoLog

InitClassifier ==
    /\ features \in FeatureVectors
    /\ category = "unclassified"
    /\ OthersInit

\* classify_image, the call of _determine_image_type on the feature vector.
Classify ==
    /\ category = "unclassified"
    /\ category' = _determine_image_type(features)
    /\ UNCHANGED <<features, format_configs, opt_call, proc_call, request, response,
                   metadata, files, next_id, simple_request, simple_response,
                   rec_call, handlers, session_inits,
                   pure_call, storage_log>>

NextClassifier == Classify

SpecClassifier == InitClassifier /\ [][NextClassifier]_vars

-----------------------------------------------------------------------------
(* The classifier: calls of get_model_recommendation *)

\* Pixel statistics of images: the skin mask of the upper half is half of the
\* whole mask, and the geometric shapes are counted among the large contours.
RecStats ==
    { s \in [upper_skin_percentage : {0, 20, 60},
             skin_percentage       : {0, 10, 30, 60},
             large_contour_count   : 0..2,
             geometric_shapes      : 0..2,
             entropy               : {0, 401, 900}] :
        /\ 2 * s.skin_percentage >= s.upper_skin_percentage
        /\ 2 * s.skin_percentage <= s.upper_skin_percentage + 100
        /\ s.geometric_shapes <= s.large_contour_count }

\* Overrides: none (""), 'auto', the known ids and unknown ones.
Preferences ==
    {"", "auto", "u2net", "u2net_human_seg", "silueta", "isnet-general-use",
     "resnet", "U2NET"}

CallGetModelRecommendation ==
    /\ rec_call = idle
    /\ \E stats \in RecStats, user_preference \in Preferences :
          rec_call' = [op |-> "get_model_recommendation", stats |-> stats,
                       user_preference |-> user_preference,
                       classification |-> classify_image(stats),
                       returned |-> get_model_recommendation(stats, user_preference)]
    /\ UNCHANGED <<features, category, format_configs, opt_call, proc_call, request,
                   response, metadata, files, next_id, simple_request, simple_response,
                   handlers, session_inits,
                   pure_call, storage_log>>

RecReturn ==
    /\ rec_call # idle
    /\ rec_call' = idle
    /\ UNCHANGED <<features, category, format_configs, opt_call, proc_call, request,
                   response, metadata, files, next_id, simple_request, simple_response,
                   handlers, session_inits,
                   pure_call, storage_log>>

NextRecommend == CallGetModelRecommendation \/ RecReturn

InitRecommend ==
    /\ features = _analyze_image_characteristics(NoStats)
    /\ category = "unclassified"
    /\ OthersInit

SpecRecommend == InitRecommend /\ [][NextRecommend]_vars

-----------------------------------------------------------------------------
(* The format optimizer: calls on the process-wide ImageFormatOptimizer *)

SmallSize == <<64, 48>>

\* The images of every mode, with and without non-opaque alpha values and
\* with and without a palette transparency key.
ImagesOfSize(size) ==
    {Img("RGB", size, FALSE, "none"), Img("L", size, FALSE, "none"),
     Img("RGBA", size, FALSE, "opaque"), Img("RGBA", size, FALSE, "partial"),
     Img("LA", size, FALSE, "opaque"), Img("LA", size, FALSE, "partial"),
     Img("P", size, FALSE, "none"), Img("P", size, TRUE, "none")}

\* Source hints and requested formats, in several spellings.
Hints ==
    {None, S_JPEG, S_JPG, S_PNG, S_WEBP,
     <<"j","p","e","g">>, <<"j","p","g">>, <<"J","p","e","g">>, <<"J","p","G">>,
     <<"p","n","g">>, <<"w","e","b","p">>, <<"g","i","f">>,
     <<"a",".","j","p","g">>, <<"j","p","e">>}

RequestedFormats ==
    {S_JPEG, S_PNG, S_WEBP, S_JPG, <<"j","p","e","g">>, <<"p","n","g">>,
     <<"W","e","b","P">>, <<"g","i","f">>, <<"A","U","T","O">>}

QualityLevels == Tiers \cup {"best"}

InitFormat ==
    /\ features = _analyze_image_characteristics(NoStats)
    /\ category = "unclassified"
    /\ OthersInit

CallGetOptimalFormat ==
    /\ opt_call = idle
    /\ \E image \in ImagesOfSize(SmallSize), hint \in Hints :
          opt_call' = [op |-> "get_optimal_format", image |-> image,
                       original_format |-> hint,
                       result |-> get_optimal_format(image, hint)]
    /\ UNCHANGED <<features, category, format_configs, proc_call, request, response,
                   metadata, files, next_id, simple_request, simple_response,
                   rec_call, handlers, session_inits,
                   pure_call, storage_log>>

CallOptimizeImage ==
    /\ opt_call = idle
    /\ \E image \in ImagesOfSize(SmallSize), format \in RequestedFormats,
          quality_level \in QualityLevels, ok1 \in BOOLEAN, ok2 \in BOOLEAN :
          /\ opt_call' = [op |-> "optimize_image", image |-> image, format |-> format,
                          quality_level |-> quality_level, ok1 |-> ok1, ok2 |-> ok2,
                          result |-> optimize_image(format_configs, image, format,
                                                    quality_level, ok1, ok2)]
          /\ format_configs' = optimize_image_format_configs(format_configs, format,
                                                             quality_level)
    /\ UNCHANGED <<features, category, proc_call, request, response,
                   metadata, files, next_id, simple_request, simple_response,
                   rec_call, handlers, session_inits,
                   pure_call, storage_log>>

CallPrepareImageForFormat ==
    /\ opt_call = idle
    /\ \E image \in ImagesOfSize(SmallSize), format \in RequestedFormats :
          opt_call' = [op |-> "_prepare_image_for_format", image |-> image,
                       format |-> format,
                       result |-> _prepare_image_for_format(image, format)]
    /\ UNCHANGED <<features, category, format_configs, proc_call, request, response,
                   metadata, files, next_id, simple_request, simple_response,
                   rec_call, handlers, session_inits,
                   pure_call, storage_log>>

\* The call returns to its caller; the optimizer is ready for the next one.
OptReturn ==
    /\ opt_call # idle
    /\ opt_call' = idle
    /\ UNCHANGED <<features, category, format_configs, proc_call, request, response,
                   metadata, files, next_id, simple_request, simple_response,
                   rec_call, handlers, session_inits,
                   pure_call, storage_log>>

NextFormat ==
    \/ CallGetOptimalFormat
    \/ CallOptimizeImage
    \/ CallPrepareImageForFormat
    \/ OptReturn

SpecFormat == InitFormat /\ [][NextFormat]_vars

-----------------------------------------------------------------------------
(* The processor: calls on HighResImageProcessor *)

MaxOffset == 1
Ceilings == {1024, 2048, 4096, 8192}

\* Widths and heights: small ones, ones around every ceiling, and ones whose
\* scaled value is an integer (561 and 1122 at 1024, 5000 at any ceiling).
DimValues ==
    {1, 2, 561, 1122, 3000, 5000, 10000}
    \cup {c + d : c \in Ceilings, d \in (0 - MaxOffset)..MaxOffset}

PostSizes == {<<64, 48>>, <<48, 64>>, <<4096, 2457>>, <<5000, 3000>>}
PostImages == UNION {ImagesOfSize(size) : size \in PostSizes}

CallPostprocess ==
    /\ proc_call = idle
    /\ \E result \in PostImages, original \in PostImages :
          proc_call' = [op |-> "postprocess_result", result |-> result,
                        original |-> original,
                        returned |-> postprocess_result(result, original)]
    /\ UNCHANGED <<features, category, format_configs, opt_call, request, response,
                   metadata, files, next_id, simple_request, simple_response,
                   rec_call, handlers, session_inits,
                   pure_call, storage_log>>

CallGetOptimalDimensions ==
    /\ proc_call = idle
    /\ \E w \in DimValues, h \in DimValues, target_quality \in Tiers,
          bw \in BOOLEAN, bh \in BOOLEAN :
          proc_call' = [op |-> "get_optimal_dimensions", original_size |-> <<w, h>>,
                        target_quality |-> target_quality,
                        returned |-> get_optimal_dimensions(<<w, h>>, target_quality,
                                                            bw, bh)]
    /\ UNCHANGED <<features, category, format_configs, opt_call, request, response,
                   metadata, files, next_id, simple_request, simple_response,
                   rec_call, handlers, session_inits,
                   pure_call, storage_log>>

CallPreprocess ==
    /\ proc_call = idle
    /\ \E w \in DimValues, h \in DimValues, image \in ImagesOfSize(SmallSize),
          bw \in BOOLEAN, bh \in BOOLEAN :
          proc_call' = [op |-> "preprocess_image", image |-> resize(image, <<w, h>>),
                        returned |-> preprocess_image(resize(image, <<w, h>>), bw, bh)]
    /\ UNCHANGED <<features, category, format_configs, opt_call, request, response,
                   metadata, files, next_id, simple_request, simple_response,
                   rec_call, handlers, session_inits,
                   pure_call, storage_log>>

ProcReturn ==
    /\ proc_call # idle
    /\ proc_call' = idle
    /\ UNCHANGED <<features, category, format_configs, opt_call, request, response,
                   metadata, files, next_id, simple_request, simple_response,
                   rec_call, handlers, session_inits,
                   pure_call, storage_log>>

NextProcessor ==
    CallPostprocess \/ CallGetOptimalDimensions \/ CallPreprocess \/ ProcReturn

SpecProcessor == InitFormat /\ [][NextProcessor]_vars

-----------------------------------------------------------------------------
(* The full service (main.py): one /remove-background request per behaviour *)

CT_png  == <<"i","m","a","g","e","/","p","n","g">>
CT_jpeg == <<"i","m","a","g","e","/","j","p","e","g">>
CT_text == <<"t","e","x","t","/","p","l","a","i","n">>
ContentTypes == {None, CT_png, CT_jpeg, CT_text}

\* One image of each category of the classifier.
PortraitStats == [upper_skin_percentage |-> 60, skin_percentage |-> 60,
                  large_contour_count |-> 0, geometric_shapes |-> 0, entropy |-> 0]
ProductStats  == [upper_skin_percentage |-> 0, skin_percentage |-> 0,
                  large_contour_count |-> 1, geometric_shapes |-> 1, entropy |-> 401]
ArtisticStats == [upper_skin_percentage |-> 0, skin_percentage |-> 0,
                  large_contour_count |-> 0, geometric_shapes |-> 0, entropy |-> 900]

LargeSize == <<5000, 3000>>

Uploads ==
    {Img("RGB", SmallSize, FALSE, "none"), Img("RGB", LargeSize, FALSE, "none"),
     Img("RGBA", SmallSize, FALSE, "partial"), Img("P", LargeSize, TRUE, "none")}

Filenames == {None, <<"a",".","j","p","g">>, <<"j","p","g">>}

\* The statistics matter to a request only when its model is "auto".
Requests ==
  { r \in
    [content_type  : ContentTypes,
     filename      : Filenames,
     image         : Uploads,
     stats         : {NoStats, PortraitStats, ProductStats, ArtisticStats},
     model         : {"auto", "u2net", "silueta", "resnet"},
     output_format : {S_auto, S_PNG, S_JPEG, <<"j","p","e","g">>, <<"w","e","b","p">>,
                      <<"g","i","f">>},
     quality       : Tiers] :
    r.model # "auto" => r.stats = NoStats }

\* What rembg.remove returns: a cutout with an alpha plane, or whatever else
\* the capability hands back.
SegmentResults ==
    {Img("RGBA", SmallSize, FALSE, "partial"), Img("RGBA", SmallSize, FALSE, "opaque"),
     Img("RGB", SmallSize, FALSE, "none")}

Stages == {"decode", "classify", "preprocess", "new_session", "segment", "postprocess"}

\* The environment of one request: the stage whose library call raises, if
\* any, and, when none does, the segmentation result, the roundings of the
\* downscale and the outcomes of the saves.
Envs ==
    { e \in [fail_at : Stages \cup {"none"}, result : SegmentResults,
             bw : BOOLEAN, bh : BOOLEAN, ok1 : BOOLEAN, ok2 : BOOLEAN] :
        e.fail_at # "none" =>
            /\ e.result = Img("RGBA", SmallSize, FALSE, "partial")
            /\ ~e.bw /\ ~e.bh /\ e.ok1 /\ e.ok2 }

InitFull ==
    /\ features = _analyze_image_characteristics(NoStats)
    /\ category = "unclassified"
    /\ format_configs = initial_format_configs
    /\ opt_call = idle
    /\ proc_call = idle
    /\ request \in Requests
    /\ response = NoBody
    /\ metadata = << >>
    /\ files = << >>
    /\ next_id = 0
    /\ simple_request = NoRequest
    /\ simple_response = NoSimpleBody
    /\ rec_call = idle
    /\ handlers = << >>
    /\ session_inits = [id \in AVAILABLE_MODELS |-> 0]
    /\ pure_call = idle
    /\ storage_log = NoLog

\* POST /remove-background of main.py, handled from its first line to its
\* response; env is kept beside the response.
RemoveBackground ==
    /\ request # NoRequest
    /\ response.status = 0
    /\ \E env \in Envs :
          response' = [remove_background(request, env) EXCEPT !.detail.env = env]
    /\ UNCHANGED <<features, category, format_configs, opt_call, proc_call, request,
                   metadata, files, next_id, simple_request, simple_response,
                   rec_call, handlers, session_inits,
                   pure_call, storage_log>>

NextFull == RemoveBackground

SpecFull == InitFull /\ [][NextFull]_vars

-----------------------------------------------------------------------------
(* The full service (main.py): several /remove-background requests in flight *)

NumHandlers == 3

\* A PNG upload asking for the model given.
SessionRequest(model) ==
    [content_type |-> CT_png, filename |-> None,
     image |-> Img("RGB", SmallSize, FALSE, "none"), stats |-> NoStats,
     model |-> model, output_format |-> S_auto, quality |-> "high"]

SessionModels == {"auto", "u2net", "silueta"}

\* rembg.new_session returns or raises; nothing else goes wrong.
SessionEnvs ==
    { [fail_at |-> f, result |-> Img("RGBA", SmallSize, FALSE, "partial"),
       bw |-> FALSE, bh |-> FALSE, ok1 |-> TRUE, ok2 |-> TRUE] :
      f \in {"none", "new_session"} }

InitSessions ==
    /\ features = _analyze_image_characteristics(NoStats)
    /\ category = "unclassified"
    /\ format_configs = initial_format_configs
    /\ opt_call = idle
    /\ proc_call = idle
    /\ request = NoRequest
    /\ response = NoBody
    /\ metadata = << >>
    /\ files = << >>
    /\ next_id = 0
    /\ simple_request = NoRequest
    /\ simple_response = NoSimpleBody
    /\ rec_call = idle
    /\ handlers = [h \in 1..NumHandlers |-> [pc |-> "idle"]]
    /\ session_inits = [id \in AVAILABLE_MODELS |-> 0]
    /\ pure_call = idle
    /\ storage_log = NoLog

\* remove_background up to `await image.read()`: the event loop may run
\* other handlers before this one goes on.
Receive(h) ==
    /\ handlers[h].pc = "idle"
    /\ \E model \in SessionModels :
          handlers' = [handlers EXCEPT ![h] = [pc |-> "reading",
                                               request |-> SessionRequest(model)]]
    /\ UNCHANGED <<features, category, format_configs, opt_call, proc_call, request,
                   response, metadata, files, next_id, simple_request, simple_response,
                   rec_call, session_inits,
                   pure_call, storage_log>>

\* remove_background from the return of image.read() to the response: no
\* await is left, so the rest runs without another handler in between.  The
\* handler calls rembg.new_session itself; the call has returned when the
\* removal was started.
Resume(h) ==
    /\ handlers[h].pc = "reading"
    /\ \E env \in SessionEnvs :
          handlers' = [handlers EXCEPT ![h] =
                          [pc |-> "done", request |-> handlers[h].request,
                           response |-> remove_background(handlers[h].request, env)]]
    /\ LET stages == handlers'[h].response.stages
           created == \E i \in DOMAIN stages : stages[i] = "segment"
       IN session_inits' =
             IF created
             THEN [session_inits EXCEPT ![handlers'[h].response.selected_model] = @ + 1]
             ELSE session_inits
    /\ UNCHANGED <<features, category, format_configs, opt_call, proc_call, request,
                   response, metadata, files, next_id, simple_request, simple_response,
                   rec_call, pure_call, storage_log>>

NextSessions == \E h \in 1..NumHandlers : Receive(h) \/ Resume(h)

SpecSessions == InitSessions /\ [][NextSessions]_vars

\* ---- The simple service: several requests in flight ----

SimpleSessionRequests ==
    [content_type  : {CT_png},
     filename      : {<<"a",".","J","P","G">>},
     image         : {Img("RGB", SmallSize, FALSE, "none")},
     upload_format : {S_PNG},
     model         : {"enhanced"},
     output_format : {S_PNG, <<"j","p","g">>},
     quality       : {"high"}]

SimpleSessionEnvs ==
    { [fail_at |-> f, grabcut_ok |-> TRUE] : f \in {"none", "segment"} }

\* main_simple.remove_background up to `await image.read()`, its one await.
SimpleReceive(h) ==
    /\ handlers[h].pc = "idle"
    /\ \E req \in SimpleSessionRequests :
          handlers' = [handlers EXCEPT ![h] = [pc |-> "reading", request |-> req]]
    /\ UNCHANGED <<features, category, format_configs, opt_call, proc_call, request,
                   response, metadata, files, next_id, simple_request, simple_response,
                   rec_call, session_inits, pure_call, storage_log>>

\* From the return of image.read() to the response: the two store_image
\* calls and the removal between them are synchronous code on the one event
\* loop uvicorn.run starts, so no other handler runs in between.  The first
\* store_image loads metadata.json as it is now.
SimpleResume(h) ==
    /\ handlers[h].pc = "reading"
    /\ \E env \in SimpleSessionEnvs :
          LET t == simple_remove_background(handlers[h].request, env,
                                            _load_metadata(metadata), files, next_id)
          IN /\ handlers' = [handlers EXCEPT ![h] =
                                [pc |-> "done", request |-> handlers[h].request,
                                 response |-> t.r]]
             /\ metadata' = t.metadata
             /\ files' = t.files
             /\ next_id' = t.next_id
    /\ UNCHANGED <<features, category, format_configs, opt_call, proc_call, request,
                   response, simple_request, simple_response, rec_call,
                   session_inits, pure_call, storage_log>>

NextSimpleSessions == \E h \in 1..NumHandlers : SimpleReceive(h) \/ SimpleResume(h)

SpecSimpleSessions == InitSessions /\ [][NextSimpleSessions]_vars

-----------------------------------------------------------------------------
(* The classical path (main_simple.py): the mask of enhanced_background_removal *)

NumPixels == 2

CueMasks == [1..NumPixels -> {0, 255}]
NoCue == [i \in 1..NumPixels |-> 0]

InitMask ==
    /\ features = _analyze_image_characteristics(NoStats)
    /\ category = "unclassified"
    /\ OthersInit

\* One run on an image, and beside it the run on an image with the same
\* grabCut labeling and Otsu threshold whose two cues are empty.
CallEnhancedMask ==
    /\ pure_call = idle
    /\ \E white_mask \in CueMasks, edges \in CueMasks,
          grabcut_mask \in [1..NumPixels -> 0..3],
          otsu_mask \in [1..NumPixels -> {0, 1}], grabcut_ok \in BOOLEAN :
          pure_call' = [op |-> "enhanced_mask", white_mask |-> white_mask,
                        edges |-> edges, grabcut_mask |-> grabcut_mask,
                        otsu_mask |-> otsu_mask, grabcut_ok |-> grabcut_ok,
                        returned |-> enhanced_mask(white_mask, edges, grabcut_mask,
                                                   otsu_mask, grabcut_ok),
                        other |-> enhanced_mask(NoCue, NoCue, grabcut_mask,
                                                otsu_mask, grabcut_ok)]
    /\ UNCHANGED <<features, category, format_configs, opt_call, proc_call, request,
                   response, metadata, files, next_id, simple_request, simple_response,
                   rec_call, handlers, session_inits, storage_log>>

PureReturn ==
    /\ pure_call # idle
    /\ pure_call' = idle
    /\ UNCHANGED <<features, category, format_configs, opt_call, proc_call, request,
                   response, metadata, files, next_id, simple_request, simple_response,
                   rec_call, handlers, session_inits, storage_log>>

NextMask == CallEnhancedMask \/ PureReturn

SpecMask == InitMask /\ [][NextMask]_vars

\* ---- _analyze_complexity on grayscale histograms ----

NumBins == 4
MaxLog == 4

\* Grayscale histograms: per bin a count that is zero or a power of two, the
\* pixel count a power of two.
Histograms ==
    {h \in [1..NumBins -> {0} \cup {2^k : k \in 0..MaxLog}] :
        /\ SumSeq(h) > 0
        /\ 2^Log2(SumSeq(h)) = SumSeq(h)}

InitComplexity == InitMask

CallAnalyzeComplexity ==
    /\ pure_call = idle
    /\ \E hist \in Histograms :
          pure_call' = [op |-> "_analyze_complexity", hist |-> hist,
                        returned |-> _analyze_complexity(hist_entropy(hist))]
    /\ UNCHANGED <<features, category, format_configs, opt_call, proc_call, request,
                   response, metadata, files, next_id, simple_request, simple_response,
                   rec_call, handlers, session_inits, storage_log>>

NextComplexity == CallAnalyzeComplexity \/ PureReturn

SpecComplexity == InitComplexity /\ [][NextComplexity]_vars

-----------------------------------------------------------------------------
(* The simple service (main_simple.py): one request per behaviour *)

SimpleRequests ==
    [content_type  : ContentTypes,
     filename      : {None, <<"a",".","J","P","G">>},
     image         : {Img("RGB", SmallSize, FALSE, "none"),
                      Img("RGBA", SmallSize, FALSE, "partial"),
                      Img("RGB", <<4, 1>>, FALSE, "none")},
     upload_format : {S_PNG},
     model         : {"auto", "enhanced", "simple", "u2net"},
     output_format : {S_PNG, <<"p","n","g">>, <<"j","p","g">>, S_WEBP, <<"g","i","f">>},
     quality       : Tiers]

SimpleEnvs ==
    { e \in [fail_at : {"none", "decode", "segment"}, grabcut_ok : BOOLEAN] :
        e.fail_at # "none" => e.grabcut_ok }

InitSimple ==
    /\ features = _analyze_image_characteristics(NoStats)
    /\ category = "unclassified"
    /\ format_configs = initial_format_configs
    /\ opt_call = idle
    /\ proc_call = idle
    /\ request = NoRequest
    /\ response = NoBody
    /\ metadata = << >>
    /\ files = << >>
    /\ next_id = 0
    /\ simple_request \in SimpleRequests
    /\ simple_response = NoSimpleBody
    /\ rec_call = idle
    /\ handlers = << >>
    /\ session_inits = [id \in AVAILABLE_MODELS |-> 0]
    /\ pure_call = idle
    /\ storage_log = NoLog

\* POST /remove-background of main_simple.py, handled from its first line to
\* its response, the two store_image calls included; env is kept beside the
\* response.
SimpleRemoveBackground ==
    /\ simple_request # NoRequest
    /\ simple_response.status = 0
    /\ \E env \in SimpleEnvs :
          LET t == simple_remove_background(simple_request, env, metadata, files, next_id)
          IN /\ simple_response' = [t.r EXCEPT !.detail.env = env]
             /\ metadata' = t.metadata
             /\ files' = t.files
             /\ next_id' = t.next_id
    /\ UNCHANGED <<features, category, format_configs, opt_call, proc_call, request,
                   response, simple_request, rec_call, handlers, session_inits,
                   pure_call, storage_log>>

NextSimple == SimpleRemoveBackground

SpecSimple == InitSimple /\ [][NextSimple]_vars

-----------------------------------------------------------------------------
(* The catalog (image_storage.py): calls on the process-wide ImageStorage *)

MaxStored == 2

StoreNames == {<<"a",".","P","N","G">>}
StoreData == {"x", "y"}

\* The updates of one update_image_metadata call: a new filename, a new
\* parent, or the file_path of some entry.
UpdatesOn(md) ==
    {[filename |-> <<"c",".","j","p","g">>]}
    \cup {[parent_id |-> 1]}
    \cup {[id |-> 1]}
    \cup {[file_path |-> md[q].file_path] : q \in DOMAIN md \cap {1}}

InitStorage ==
    /\ features = _analyze_image_characteristics(NoStats)
    /\ category = "unclassified"
    /\ OthersInit

StoreImage ==
    /\ next_id < MaxStored
    /\ \E image_data \in StoreData, filename \in StoreNames, parent_id \in 0..next_id :
          LET st == store_image(metadata, files, next_id + 1, image_data, filename,
                                IF parent_id = 0 THEN "original" ELSE "processed",
                                parent_id, << >>)
          IN /\ metadata' = st.metadata
             /\ files' = st.files
             /\ storage_log' = [storage_log EXCEPT
                                   !.stored = (next_id + 1 :> image_data) @@ @,
                                   !.call = [op |-> "store_image"]]
    /\ next_id' = next_id + 1
    /\ UNCHANGED <<features, category, format_configs, opt_call, proc_call, request,
                   response, simple_request, simple_response, rec_call, handlers,
                   session_inits, pure_call>>

UpdateImageMetadata ==
    /\ \E image_id \in 1..MaxStored, updates \in UpdatesOn(metadata) :
          LET u == update_image_metadata(metadata, image_id, updates)
          IN /\ metadata' = u.metadata
             /\ storage_log' = [storage_log EXCEPT
                                   !.overwritten = @ \/ ( /\ u.returned
                                                          /\ DOMAIN updates \cap
                                                             {"id", "file_path"} # {} ),
                                   !.call = [op |-> "update_image_metadata"]]
    /\ UNCHANGED <<features, category, format_configs, opt_call, proc_call, request,
                   response, files, next_id, simple_request, simple_response, rec_call,
                   handlers, session_inits, pure_call>>

DeleteImage ==
    /\ \E image_id \in 1..MaxStored, delete_children \in BOOLEAN :
          LET d == delete_image(metadata, files, image_id, delete_children)
              children == IF delete_children
                          THEN {metadata[c].id : c \in {k \in DOMAIN metadata :
                                                 metadata[k].parent_id = image_id}}
                          ELSE {}
          IN /\ metadata' = d.metadata
             /\ files' = d.files
             /\ storage_log' = [storage_log EXCEPT
                                   !.deleted = IF d.returned
                                               THEN @ \cup {image_id} \cup children
                                               ELSE @,
                                   !.call = [op |-> "delete_image",
                                             image_id |-> image_id,
                                             delete_children |-> delete_children,
                                             returned |-> d.returned]]
    /\ UNCHANGED <<features, category, format_configs, opt_call, proc_call, request,
                   response, next_id, simple_request, simple_response, rec_call,
                   handlers, session_inits, pure_call>>

NextStorage == StoreImage \/ UpdateImageMetadata \/ DeleteImage

SpecStorage == InitStorage /\ [][NextStorage]_vars

-----------------------------------------------------------------------------
(* Both services: one /remove-background request to one of them per behaviour *)

InitServices == InitFull \/ InitSimple

NextServices == RemoveBackground \/ SimpleRemoveBackground

SpecServices == InitServices /\ [][NextServices]_vars

-----------------------------------------------------------------------------
(* Properties *)

\* C1: _determine_image_type returns exactly one of the four categories, the
\* first whose rule matches in the order portrait, product, artistic, general:
\* portrait iff likely_portrait, face_probability > 0.4 and skin_percentage >
\* 0.15; else product iff object_likelihood > 0.6, geometric_shapes > 0 and the
\* complexity level is low or medium; else artistic iff the level is high and
\* entropy > 6.5; else general.
C1_CascadeFirstMatch ==
    category # "unclassified" =>
        LET portrait == /\ features.face_stats.likely_portrait
                        /\ features.face_stats.face_probability > 40
                        /\ features.color_stats.skin_percentage > 15
            product  == /\ 10 * features.object_stats.object_likelihood.n
                             > 6 * features.object_stats.object_likelihood.d
                        /\ features.object_stats.geometric_shapes > 0
                        /\ features.complexity.complexity_level \in {"low", "medium"}
            artistic == /\ features.complexity.complexity_level = "high"
                        /\ features.complexity.entropy > 650
        IN /\ category \in {"portrait", "product", "artistic", "general"}
           /\ (category = "portrait") <=> portrait
           /\ (category = "product")  <=> (~portrait /\ product)
           /\ (category = "artistic") <=> (~portrait /\ ~product /\ artistic)
           /\ (category = "general")  <=> (~portrait /\ ~product /\ ~artistic)

\* A vector matching both the portrait and the product rule was classified
\* portrait.
C1_PortraitOverProduct ==
    /\ category = "portrait"
    /\ 10 * features.object_stats.object_likelihood.n
          > 6 * features.object_stats.object_likelihood.d
    /\ features.object_stats.geometric_shapes > 0
    /\ features.complexity.complexity_level \in {"low", "medium"}

\* The hints that spell JPEG or JPG in any case.
JpegHints ==
    {h \in Hints : lower(h) \in {<<"j","p","e","g">>, <<"j","p","g">>}}

C3_FallbackToPng ==
    ( /\ opt_call.op = "optimize_image"
      /\ upper(opt_call.format) \in {S_PNG, S_JPEG, S_WEBP}
      /\ ~opt_call.ok1
      /\ opt_call.ok2 ) =>
        /\ opt_call.result.outcome = "return"
        /\ opt_call.result.format = S_PNG
        /\ opt_call.result.bytes.format = S_PNG
        /\ Len(opt_call.result.attempts) = 2
        /\ opt_call.result.attempts[1].format = upper(opt_call.format)
        /\ opt_call.result.attempts[2] = opt_call.result.bytes

\* A JPEG save failed and the call returned PNG.
C3_JpegFellBack ==
    /\ opt_call.op = "optimize_image"
    /\ upper(opt_call.format) = S_JPEG
    /\ ~opt_call.ok1
    /\ opt_call.ok2
    /\ opt_call.result.outcome = "return"
    /\ opt_call.result.format = S_PNG

\* C4: when the save of the requested format and the PNG fallback save both
\* fail, optimize_image has made two saves and no more, and /remove-background
\* of main.py ends in a 500 that carries no bytes.
C4_SecondFailureSurfaces ==
    ( /\ response.status # 0
      /\ Len(response.attempts) >= 1
      /\ ~response.detail.env.ok1
      /\ ~response.detail.env.ok2 ) =>
        /\ response.status = 500
        /\ response.body = NoBytes
        /\ Len(response.attempts) = 2
        /\ response.attempts[2].format = S_PNG

\* Both saves of a request failed and the request ended in a 500.
C4_BothSavesFailed ==
    /\ response.status = 500
    /\ Len(response.attempts) = 2
    /\ ~response.detail.env.ok1
    /\ ~response.detail.env.ok2

\* C5: a decodable image upload whose model is neither 'auto' nor a known
\* strategy id is answered with a 4xx that lists the valid ids, and no
\* preprocessing, segmentation or encoding runs for it.
C5_UnknownModelRejected ==
    ( /\ response.status # 0
      /\ request.content_type = CT_png
      /\ response.detail.env.fail_at # "decode"
      /\ request.model \notin AVAILABLE_MODELS \cup {"auto"} ) =>
        /\ response.status \in 400..499
        /\ response.detail.valid = AVAILABLE_MODELS
        /\ \A i \in DOMAIN response.stages :
              response.stages[i] \notin {"preprocess", "new_session", "segment",
                                         "postprocess", "encode"}

\* C6: a request whose output format is neither 'auto' nor PNG, JPEG or WEBP
\* (in any case), and in which nothing else goes wrong, is answered with a 4xx:
\* never with a 5xx, never with bytes of another format.
C6_UnknownFormatRejected ==
    ( /\ response.status # 0
      /\ request.content_type = CT_png
      /\ response.detail.env.fail_at = "none"
      /\ request.model \in AVAILABLE_MODELS \cup {"auto"}
      /\ request.output_format # S_auto
      /\ upper(request.output_format) \notin {S_PNG, S_JPEG, S_WEBP} ) =>
        /\ response.status \in 400..499
        /\ response.body = NoBytes

\* C7: an upload whose content type is missing or does not start with
\* 'image/' is answered with a 400, and no stage of the pipeline runs for it.
C7_NonImageRejected ==
    ( /\ response.status # 0
      /\ \/ request.content_type = None
         \/ ~startswith(request.content_type, S_image_slash) ) =>
        /\ response.status = 400
        /\ response.stages = << >>

\* C8: the image postprocess_result returns has the width and the height of
\* the original it was given, whatever the size of the result it was given.
C8_PostprocessKeepsOriginalSize ==
    proc_call.op = "postprocess_result" =>
        /\ proc_call.returned.size[1] = proc_call.original.size[1]
        /\ proc_call.returned.size[2] = proc_call.original.size[2]

\* A result of another size than a non-square original came back at the
\* original's size.
C8_ResizedToOriginal ==
    /\ proc_call.op = "postprocess_result"
    /\ proc_call.result.size # proc_call.original.size
    /\ proc_call.original.size[1] # proc_call.original.size[2]
    /\ proc_call.returned.size = proc_call.original.size

\* C9: an RGBA result comes back from postprocess_result with its alpha plane
\* smoothed (Gaussian blur, close, open) and its edges then refined.
C9_AlphaSmoothedThenRefined ==
    ( /\ proc_call.op = "postprocess_result"
      /\ proc_call.result.mode = "RGBA" ) =>
        proc_call.returned.filters =
            proc_call.result.filters
            \o <<"alpha.GaussianBlur", "alpha.MORPH_CLOSE", "alpha.MORPH_OPEN",
                 "refine_edges">>

\* C10: get_optimal_dimensions returns a size no larger than its input on
\* either axis, and the input itself when the long edge is at most the tier's
\* ceiling (ultra 8192, high 4096, medium 2048, low 1024).
C10_NeverUpscales ==
    proc_call.op = "get_optimal_dimensions" =>
        LET w == proc_call.original_size[1]
            h == proc_call.original_size[2]
            ceiling == CASE proc_call.target_quality = "ultra"  -> 8192
                         [] proc_call.target_quality = "high"   -> 4096
                         [] proc_call.target_quality = "medium" -> 2048
                         [] proc_call.target_quality = "low"    -> 1024
        IN /\ proc_call.returned[1] <= w
           /\ proc_call.returned[2] <= h
           /\ (w <= ceiling /\ h <= ceiling) => proc_call.returned = <<w, h>>

\* A size above the tier's ceiling came back smaller on both axes.
C10_Downscaled ==
    /\ proc_call.op = "get_optimal_dimensions"
    /\ proc_call.target_quality = "medium"
    /\ proc_call.original_size = <<5000, 3000>>
    /\ proc_call.returned[1] < 5000
    /\ proc_call.returned[2] < 3000

\* The ceiling of a tier as the specification tables it.
TierCeiling(target_quality) ==
    CASE target_quality = "ultra"  -> 8192
      [] target_quality = "high"   -> 4096
      [] target_quality = "medium" -> 2048
      [] target_quality = "low"    -> 1024

Abs(x) == IF x < 0 THEN 0 - x ELSE x

\* C11 as stated: for every positive size and every tier the size
\* get_optimal_dimensions returns has a height and keeps the aspect ratio,
\* |outW/outH - inW/inH| < 0.001, that is 1000 * |outW*inH - inW*outH| <
\* outH*inH.
C11_AspectRatioWithinThousandth ==
    proc_call.op = "get_optimal_dimensions" =>
        LET w == proc_call.original_size[1]
            h == proc_call.original_size[2]
            ow == proc_call.returned[1]
            oh == proc_call.returned[2]
        IN /\ oh > 0
           /\ Abs(ow * h - w * oh) <= (oh * h - 1) \div 1000

\* C11: get_optimal_dimensions keeps the aspect ratio up to the truncation of
\* each axis to whole pixels: a size within the tier's ceiling is returned
\* unchanged, and of a larger one each returned dimension is the exactly
\* proportional value in * ceiling / long, or at most one pixel below it.
C11_AxesProportionalToOnePixel ==
    proc_call.op = "get_optimal_dimensions" =>
        LET w == proc_call.original_size[1]
            h == proc_call.original_size[2]
            ow == proc_call.returned[1]
            oh == proc_call.returned[2]
            ceiling == TierCeiling(proc_call.target_quality)
            long == Max(w, h)
        IN IF long <= ceiling
           THEN ow = w /\ oh = h
           ELSE /\ ow * long <= w * ceiling /\ w * ceiling <= (ow + 1) * long
                /\ oh * long <= h * ceiling /\ h * ceiling <= (oh + 1) * long

\* A 1025x2 image at low came back 1024x1: the ratio went from 512.5 to 1024.
C11_RatioChanged ==
    /\ proc_call.op = "get_optimal_dimensions"
    /\ proc_call.target_quality = "low"
    /\ proc_call.original_size = <<1025, 2>>
    /\ proc_call.returned = <<1024, 1>>

\* C12: of a size whose long edge exceeds the tier's ceiling,
\* get_optimal_dimensions returns a size whose long edge is the ceiling or one
\* pixel less; and of an image whose long edge exceeds 4096, preprocess_image
\* returns an image whose long edge is 4096 or one pixel less.
C12_LongEdgeAtCeiling ==
    /\ ( /\ proc_call.op = "get_optimal_dimensions"
         /\ Max(proc_call.original_size[1], proc_call.original_size[2])
               > TierCeiling(proc_call.target_quality) ) =>
           Max(proc_call.returned[1], proc_call.returned[2])
               \in {TierCeiling(proc_call.target_quality) - 1,
                    TierCeiling(proc_call.target_quality)}
    /\ ( /\ proc_call.op = "preprocess_image"
         /\ Max(proc_call.image.size[1], proc_call.image.size[2]) > 4096 ) =>
           Max(proc_call.returned.size[1], proc_call.returned.size[2]) \in {4095, 4096}

\* A 3000x5000 image at low came back with a long edge of 1024.
C12_ScaledToCeiling ==
    /\ proc_call.op = "get_optimal_dimensions"
    /\ proc_call.target_quality = "low"
    /\ proc_call.original_size = <<3000, 5000>>
    /\ proc_call.returned[2] = 1024

\* C13: for each of PNG, JPEG and WEBP (in any case) and each tier, the save
\* of the requested format in optimize_image is given exactly the tabled
\* parameters: PNG compress level 6 at ultra and high and 9 at medium and low;
\* WEBP and JPEG quality 98 at ultra, 95 at high, 85 at medium, 75 at low; JPEG
\* progressive at every tier.
C13_TabledParameters ==
    ( /\ opt_call.op = "optimize_image"
      /\ upper(opt_call.format) \in {S_PNG, S_JPEG, S_WEBP}
      /\ opt_call.quality_level \in Tiers ) =>
        LET tier == opt_call.quality_level
            params == opt_call.result.attempts[1].params
            quality == CASE tier = "ultra"  -> 98
                         [] tier = "high"   -> 95
                         [] tier = "medium" -> 85
                         [] tier = "low"    -> 75
        IN /\ opt_call.result.attempts[1].format = upper(opt_call.format)
           /\ upper(opt_call.format) = S_PNG =>
                 params.compress_level = IF tier \in {"ultra", "high"} THEN 6 ELSE 9
           /\ upper(opt_call.format) = S_WEBP => params.quality = quality
           /\ upper(opt_call.format) = S_JPEG =>
                 params.quality = quality /\ params.progressive

\* A WEBP encode at low was saved with quality 75 and returned.
C13_WebpLow ==
    /\ opt_call.op = "optimize_image"
    /\ upper(opt_call.format) = S_WEBP
    /\ opt_call.quality_level = "low"
    /\ opt_call.result.outcome = "return"
    /\ opt_call.result.bytes.format = S_WEBP
    /\ opt_call.result.bytes.params.quality = 75

\* C14: get_optimal_format counts an image as transparent only when its alpha
\* plane holds at least one non-opaque value or it is a palette image with a
\* transparency key: an image whose alpha plane is fully opaque gets JPEG when
\* the hint spells JPEG or JPG, not PNG.
C14_TransparencyByAlphaValues ==
    opt_call.op = "get_optimal_format" =>
        LET transparent == \/ opt_call.image.alpha = "partial"
                           \/ /\ opt_call.image.mode = "P"
                              /\ opt_call.image.transparency
        IN opt_call.result =
              IF transparent THEN S_PNG
              ELSE IF opt_call.original_format \in JpegHints THEN S_JPEG
              ELSE S_PNG

\* C15: with output format 'auto', an opaque JPEG upload (image/jpeg, named
\* a.jpg, an RGB image) whose request succeeds without an encode failure is
\* answered with JPEG bytes.
C15_OpaqueJpegStaysJpeg ==
    ( /\ response.status = 200
      /\ request.content_type = CT_jpeg
      /\ request.filename = <<"a",".","j","p","g">>
      /\ request.image.mode = "RGB"
      /\ request.output_format = S_auto
      /\ response.detail.env.ok1 ) =>
        response.body.format = S_JPEG

\* C16: for the JPEG target _prepare_image_for_format returns an RGB image
\* without alpha and without a transparency key whatever the mode it was
\* given (RGBA, LA, P with or without a key, L, RGB), an RGBA image having
\* been pasted onto a white background; for the PNG and WEBP targets an image
\* with transparency (a non-opaque alpha value, or a palette transparency
\* key) comes back as RGBA with its transparency in the alpha plane.
C16_PreparedForTarget ==
    opt_call.op = "_prepare_image_for_format" =>
        LET image == opt_call.image
            prepared == opt_call.result
            transparent == \/ image.alpha = "partial"
                           \/ image.mode = "P" /\ image.transparency
        IN /\ upper(opt_call.format) = S_JPEG =>
                 /\ prepared.mode = "RGB"
                 /\ prepared.alpha = "none"
                 /\ ~prepared.transparency
                 /\ prepared.size = image.size
                 /\ image.mode = "RGBA" =>
                       prepared.filters = image.filters \o <<"paste_on_white">>
           /\ (upper(opt_call.format) \in {S_PNG, S_WEBP} /\ transparent) =>
                 /\ prepared.mode = "RGBA"
                 /\ prepared.alpha = "partial"
                 /\ prepared.size = image.size

\* A palette image with a transparency key was prepared for jpeg as RGB.
C16_PaletteKeyToJpeg ==
    /\ opt_call.op = "_prepare_image_for_format"
    /\ opt_call.image.mode = "P"
    /\ opt_call.image.transparency
    /\ opt_call.format = <<"j","p","e","g">>
    /\ opt_call.result.mode = "RGB"

\* C17: get_model_recommendation returns the override verbatim when it is one
\* of u2net, u2net_human_seg, silueta, isnet-general-use; for no override,
\* 'auto' or any other unknown override it returns the primary strategy of the
\* image's category (portrait u2net_human_seg, product silueta, artistic
\* isnet-general-use, general u2net).
C17_OverrideOrPrimary ==
    rec_call.op = "get_model_recommendation" =>
        LET type == rec_call.classification.type
            primary == CASE type = "portrait" -> "u2net_human_seg"
                         [] type = "product"  -> "silueta"
                         [] type = "artistic" -> "isnet-general-use"
                         [] type = "general"  -> "u2net"
        IN rec_call.returned =
              IF rec_call.user_preference
                    \in {"u2net", "u2net_human_seg", "silueta", "isnet-general-use"}
              THEN rec_call.user_preference
              ELSE primary

\* An unknown override on a product image was answered with silueta.
C17_UnknownOverrideIgnored ==
    /\ rec_call.op = "get_model_recommendation"
    /\ rec_call.user_preference = "resnet"
    /\ rec_call.classification.type = "product"
    /\ rec_call.returned = "silueta"

\* How many times a stage appears among the stages a request ran.
Count(stage, stages) == Cardinality({i \in DOMAIN stages : stages[i] = stage})

\* C18: when rembg.new_session or rembg.remove raises in a request, the
\* request ends in a 500 that carries no bytes: the session was asked for
\* once and the removal at most once, the failed call is the last stage run,
\* and no postprocessing, no encoding and no save follows.
C18_SegmentationFailureIsFinal ==
    ( /\ response.status # 0
      /\ response.detail.env.fail_at \in {"new_session", "segment"}
      /\ Count(response.detail.env.fail_at, response.stages) > 0 ) =>
        /\ response.status = 500
        /\ response.body = NoBytes
        /\ response.detail.cause = response.detail.env.fail_at
        /\ response.stages[Len(response.stages)] = response.detail.env.fail_at
        /\ Count("new_session", response.stages) = 1
        /\ Count("segment", response.stages) <= 1
        /\ \A i \in DOMAIN response.stages :
              response.stages[i] \in {"decode", "classify", "preprocess",
                                      "new_session", "segment"}
        /\ response.attempts = << >>

\* rembg.remove raised in a request with an automatically selected model, and
\* the request ended in a 500.
C18_RemoveRaised ==
    /\ response.status = 500
    /\ request.model = "auto"
    /\ response.detail.env.fail_at = "segment"
    /\ response.stages = <<"decode", "classify", "preprocess", "new_session", "segment">>

\* C19: however many requests use a strategy id, at the same time or one
\* after the other, the rembg session of that id is created at most once.
C19_OneSessionPerId ==
    \A id \in AVAILABLE_MODELS : session_inits[id] <= 1

\* C20: when grabCut raises in a request handled by enhanced_background_removal
\* and nothing else goes wrong, the removal falls back to the Otsu threshold
\* and returns an RGBA image of the width and height of the upload, and the
\* request succeeds: the failure of grabCut reaches no caller.
C20_GrabCutFailureRecovered ==
    ( /\ simple_response.status # 0
      /\ \E i \in DOMAIN simple_response.stages : simple_response.stages[i] = "enhanced"
      /\ simple_response.detail.env.fail_at = "none"
      /\ ~simple_response.detail.env.grabcut_ok ) =>
        /\ simple_response.status = 200
        /\ simple_response.result_image.mode = "RGBA"
        /\ simple_response.result_image.size[1] = simple_request.image.size[1]
        /\ simple_response.result_image.size[2] = simple_request.image.size[2]
        /\ simple_response.result_image.filters[1] = "THRESH_OTSU"
        /\ \A i \in DOMAIN simple_response.result_image.filters :
              simple_response.result_image.filters[i] # "grabCut"

\* grabCut raised on a 4x1 upload, whose seed rectangle is empty, and the
\* request succeeded with an Otsu mask.
C20_DegenerateRectangle ==
    /\ simple_response.status = 200
    /\ simple_request.image.size = <<4, 1>>
    /\ simple_request.model = "auto"
    /\ ~simple_response.detail.env.grabcut_ok
    /\ simple_response.result_image.size = <<4, 1>>
    /\ simple_response.result_image.filters[1] = "THRESH_OTSU"

MimeOf(format) ==
    CASE format = S_PNG  -> "image/png"
      [] format = S_JPEG -> "image/jpeg"
      [] format = S_WEBP -> "image/webp"
      [] OTHER           -> "none"

\* The filename extensions that name an encoding format.
ExtensionsOf(format) ==
    CASE format = S_PNG  -> {<<"p","n","g">>}
      [] format = S_JPEG -> {<<"j","p","g">>, <<"j","p","e","g">>}
      [] format = S_WEBP -> {<<"w","e","b","p">>}
      [] OTHER           -> {}

\* C22: every 200 of /remove-background, of main.py and of main_simple.py,
\* reports a content type among image/png, image/jpeg, image/webp that is the
\* MIME type of the format the returned bytes were encoded in, also when the
\* encode fallback put PNG in the place of the requested format, and suggests
\* a filename whose extension names that format.
C22_ContentTypeOfFormatUsed ==
    /\ response.status = 200 =>
          /\ response.media_type \in {"image/png", "image/jpeg", "image/webp"}
          /\ response.media_type = MimeOf(response.body.format)
          /\ \E ext \in ExtensionsOf(response.body.format) :
                response.filename = <<"r","e","s","u","l","t",".">> \o ext
    /\ simple_response.status = 200 =>
          /\ simple_response.media_type \in {"image/png", "image/jpeg", "image/webp"}
          /\ simple_response.media_type = MimeOf(simple_response.body.format)
          /\ simple_response.file_ext \in ExtensionsOf(simple_response.body.format)

\* A request for JPEG whose JPEG save failed was answered with PNG bytes
\* reported as image/png.
C22_FallbackReportedAsPng ==
    /\ response.status = 200
    /\ upper(request.output_format) = S_JPEG
    /\ ~response.detail.env.ok1
    /\ response.body.format = S_PNG
    /\ response.media_type = "image/png"

\* C23: in every /remove-background request of main.py that reaches the
\* encoding, the working image that was handed to the segmentation has a long
\* edge no greater than the ceiling of the requested tier (ultra 8192, high
\* 4096, medium 2048, low 1024).
C23_WorkingSizeWithinTierCeiling ==
    ( /\ response.status # 0
      /\ Count("encode", response.stages) > 0 ) =>
        Max(response.working_size[1], response.working_size[2])
            <= TierCeiling(request.quality)

\* C24: when delete_image(id, delete_children=True) has returned True, the
\* catalog holds neither id nor any entry whose parent_id is id.
C24_DeleteRemovesChildren ==
    ( /\ storage_log.call.op = "delete_image"
      /\ storage_log.call.delete_children
      /\ storage_log.call.returned ) =>
        /\ get_image(metadata, storage_log.call.image_id) = None
        /\ \A k \in DOMAIN metadata :
              metadata[k].parent_id # storage_log.call.image_id

\* Every id store_image returned and no delete_image call deleted, itself or
\* as a child, is retrievable with the bytes stored under it, and the ids
\* returned are as many as the store_image calls.
StoredStaysRetrievable ==
    /\ \A id \in DOMAIN storage_log.stored \ storage_log.deleted :
          /\ get_image(metadata, id) # None
          /\ get_image(metadata, id).id = id
          /\ get_image_data(metadata, files, id) = storage_log.stored[id]
    /\ DOMAIN storage_log.stored = 1..next_id

C26_EntropyIsShannonBits ==
    pure_call.op = "_analyze_complexity" =>
        LET hist == pure_call.hist
            entropy == pure_call.returned.entropy
            level == pure_call.returned.complexity_level
        IN /\ entropy * SumSeq(hist) = 100 * hist_sum_count_log(hist)
           /\ entropy >= 0 /\ entropy <= 800
           /\ level = "high" <=> entropy > 600
           /\ level = "medium" <=> (entropy > 400 /\ entropy <= 600)
           /\ level = "low" <=> entropy <= 400

\* C27: the primary strategy of every category is a key of AVAILABLE_MODELS,
\* and a request of the full service with model 'auto' whose image was
\* classified is never rejected as an invalid model: the strategy selected
\* for it is a known id.
C27_AutoSelectsAKnownModel ==
    /\ \A t \in DOMAIN image_types : image_types[t][1] \in AVAILABLE_MODELS
    /\ ( /\ response.status # 0
         /\ request.model = "auto"
         /\ Count("classify", response.stages) > 0
         /\ response.detail.cause # "classify" ) =>
           /\ response.detail.valid = {}
           /\ response.selected_model \in AVAILABLE_MODELS
           /\ response.selected_model = classify_image(request.stats).recommended_model

\* An artistic image sent with model 'auto' was answered 200 with the
\* strategy isnet-general-use.
C27_AutoArtisticServed ==
    /\ request # NoRequest
    /\ request.model = "auto"
    /\ request.stats = ArtisticStats
    /\ response.status = 200
    /\ response.selected_model = "isnet-general-use"

\* C28: for a width and a height of at least 1, get_optimal_dimensions
\* returns a width and a height of at least 1, and so does the downscale of
\* preprocess_image: no dimension is ever zero.
C28_NoZeroDimension ==
    /\ ( /\ proc_call.op = "get_optimal_dimensions"
         /\ proc_call.original_size[1] >= 1
         /\ proc_call.original_size[2] >= 1 ) =>
           /\ proc_call.returned[1] >= 1
           /\ proc_call.returned[2] >= 1
    /\ ( /\ proc_call.op = "preprocess_image"
         /\ proc_call.image.size[1] >= 1
         /\ proc_call.image.size[2] >= 1 ) =>
           /\ proc_call.returned.size[1] >= 1
           /\ proc_call.returned.size[2] >= 1

\* C29: optimize_image never modifies the shared format_configs: after any
\* sequence of calls the table equals its initial value, and the parameters a
\* call encodes with are those of its own format and tier, whatever the calls
\* before it were.
C29_FormatConfigsNeverModified ==
    /\ format_configs = initial_format_configs
    /\ ( /\ opt_call.op = "optimize_image"
         /\ opt_call.result.attempts # << >> ) =>
           opt_call.result.attempts[1].params =
               save_params(upper(opt_call.format),
                           tier_config(initial_format_configs, upper(opt_call.format),
                                       opt_call.quality_level))

\* A PNG was encoded at the medium tier with compress_level 9, and the
\* table's PNG entry still has compress_level 6.
C29_MediumPngLeftTheTable ==
    /\ opt_call.op = "optimize_image"
    /\ upper(opt_call.format) = S_PNG
    /\ opt_call.quality_level = "medium"
    /\ opt_call.result.outcome = "return"
    /\ opt_call.result.attempts[1].params.compress_level = 9
    /\ format_configs[S_PNG].compress_level = 6

\* C30: with several /remove-background requests of the simple service in
\* flight, no catalog update is lost: the catalog holds the original and the
\* processed entry of every request that completed successfully, each with
\* its file, the processed one pointing to its original, and no two requests
\* share an id; so it does once all have completed.
C30_NoCatalogUpdateLost ==
    \A h \in 1..NumHandlers :
       ( /\ handlers[h].pc = "done"
         /\ handlers[h].response.status = 200 ) =>
           LET r == handlers[h].response
           IN /\ r.original_id \in DOMAIN metadata
              /\ r.processed_id \in DOMAIN metadata
              /\ r.original_id # r.processed_id
              /\ metadata[r.original_id].type = "original"
              /\ metadata[r.processed_id].type = "processed"
              /\ metadata[r.processed_id].parent_id = r.original_id
              /\ get_image_data(metadata, files, r.original_id) # None
              /\ get_image_data(metadata, files, r.processed_id) = r.body
              /\ \A g \in 1..NumHandlers \ {h} :
                    ( /\ handlers[g].pc = "done"
                      /\ handlers[g].response.status = 200 ) =>
                        {r.original_id, r.processed_id}
                        \cap {handlers[g].response.original_id,
                              handlers[g].response.processed_id} = {}

\* Every handler has completed successfully, the second one before the first,
\* and the catalog holds two entries per request.
C30_AllCompletedOutOfOrder ==
    /\ \A h \in 1..NumHandlers :
          handlers[h].pc = "done" /\ handlers[h].response.status = 200
    /\ handlers[2].response.original_id < handlers[1].response.original_id
    /\ Cardinality(DOMAIN metadata) = 2 * NumHandlers

====
